---- MODULE Spec2Model ----
(***************************************************************************)
(* The voice-turn loop of src/src/components/AutonomousVoiceAgent.tsx.     *)
(*                                                                         *)
(* The component is a React function component.  Its state lives in        *)
(* useState cells; every callback (handleUserInput, updateTaskContext,     *)
(* the recognition handlers, the timers) is a closure over the values      *)
(* those cells had in the render that created the callback.  The model     *)
(* therefore keeps, next to the live state, the captured values ("cl")     *)
(* of every callback that is still able to run: a recognition object       *)
(* carries the render it was initialised in, an in-flight turn carries     *)
(* the render of the handler that dispatched it, a timer carries the       *)
(* render that armed it.                                                   *)
(*                                                                         *)
(* Every action is one JavaScript task (an event handler or the            *)
(* continuation after an await), followed by the one React render its      *)
(* state updates cause and by the passive effect of lines 468-478 when     *)
(* its dependencies changed.  A recognition object's onend event is taken  *)
(* together with the stop() call that causes it, and onstart together      *)
(* with start().                                                           *)
(***************************************************************************)
EXTENDS Integers, Sequences, FiniteSets, TLC

(***************************************************************************)
(* Bounds of the model.                                                    *)
(***************************************************************************)
\* final recognition results delivered over a run
MaxFinals == 2
\* clicks on the toggle that start a session
MaxStarts == 1
\* final recognition results delivered over a run of SpecSerial
MaxSerialFinals == 5
\* final recognition results delivered over a run of SpecSerialAny
MaxSerialAnyFinals == 5
\* final recognition results delivered over a run of SpecLive
MaxLiveFinals == 2
\* pieces of text a transcript of SpecClassify is made of
MaxTokens == 3
\* milliseconds the clock of SpecClock advances over a run
MaxClock == 2
\* processCommand calls over a run of SpecCommand
MaxCommands == 3
\* processCommand calls of VoiceInterface over a run of SpecVoice
MaxVoiceCommands == 2
\* recordings started in VoiceInterface over a run
MaxRecordings == 2
\* recognition results of ContinuousVoiceInterface over a run
MaxResults == 3
\* clicks on the toggle of ContinuousVoiceInterface over a run
MaxClicks == 3
\* uses of the Keigo Mode switch over a run
MaxSwitches == 1
\* clicks on an Execute button of AgentCards over a run
MaxRuns == 2

(***************************************************************************)
(* Inputs: what a finalized transcript is to the code.  kw is the set of   *)
(* task types one of whose trigger words occurs in the lower-cased text,   *)
(* ja says whether the text has a kana or kanji character.  The third      *)
(* input stands for a Japanese sentence with the katakana triggers of      *)
(* lines 68 and 71 ("follow-up" and "log"), written here in Latin letters. *)
(***************************************************************************)
TaskTypes == {"onboarding", "followup", "logging"}

Inputs ==
  { [text |-> "register new customer Tanaka", kw |-> {"onboarding"}, ja |-> FALSE],
    [text |-> "hello",                        kw |-> {},             ja |-> FALSE],
    [text |-> "foro- no rogu",                kw |-> {"followup", "logging"}, ja |-> TRUE] }

\* useState('ja'), line 40; the language switch is not operated
language == "ja"

\* a detection that takes every text for English
detectLanguageAlwaysEnglish(input) == "en"

\* detectLanguage, lines 58-61
detectLanguage(input) == IF input.ja THEN "ja" ELSE "en"

\* a classifier that tests the followup triggers first
determineTaskTypeFollowupFirst(input) ==
  IF "followup" \in input.kw THEN "followup"
  ELSE IF "onboarding" \in input.kw THEN "onboarding"
  ELSE IF "logging" \in input.kw THEN "logging"
  ELSE "null"

\* determineTaskType, lines 63-75: the first matching lexicon wins
determineTaskType(input) ==
  IF "onboarding" \in input.kw THEN "onboarding"
  ELSE IF "followup" \in input.kw THEN "followup"
  ELSE IF "logging" \in input.kw THEN "logging"
  ELSE "null"

(***************************************************************************)
(* Texts as determineTaskType reads them: sequences of characters.  A kana *)
(* or kanji character is written as its reading between angle brackets.    *)
(***************************************************************************)
UpperCase == <<"A", "B", "C", "D", "E", "F", "G", "H", "I", "J", "K", "L", "M",
               "N", "O", "P", "Q", "R", "S", "T", "U", "V", "W", "X", "Y", "Z">>
LowerCase == <<"a", "b", "c", "d", "e", "f", "g", "h", "i", "j", "k", "l", "m",
               "n", "o", "p", "q", "r", "s", "t", "u", "v", "w", "x", "y", "z">>

\* String.prototype.toLowerCase, line 64
toLowerCase(text) ==
  [i \in 1..Len(text) |->
     IF \E k \in 1..Len(UpperCase) : UpperCase[k] = text[i]
     THEN LowerCase[CHOOSE k \in 1..Len(UpperCase) : UpperCase[k] = text[i]]
     ELSE text[i]]

\* String.prototype.includes
includes(text, word) ==
  \E i \in 1..(Len(text) - Len(word) + 1) :
     SubSeq(text, i, i + Len(word) - 1) = word

\* the trigger words of lines 65, 68 and 71
Lexicon ==
  [onboarding |-> { <<"<kei>", "<yaku>">>, <<"<tou>", "<roku>">>,
                    <<"o", "n", "b", "o", "a", "r", "d">>,
                    <<"r", "e", "g", "i", "s", "t", "e", "r">> },
   followup   |-> { <<"<fu>", "<o>", "<ro>", "<->">>, <<"f", "o", "l", "l", "o", "w">>,
                    <<"<me>", "<->", "<ru>">>, <<"e", "m", "a", "i", "l">> },
   logging    |-> { <<"<ro>", "<gu>">>, <<"<ki>", "<roku>">>, <<"l", "o", "g">>,
                    <<"v", "i", "s", "i", "t">> }]

\* the characters of the ranges of line 59 that occur in the texts
Japanese ==
  {"<kei>", "<yaku>", "<tou>", "<roku>", "<fu>", "<o>", "<ro>", "<->", "<me>",
   "<ru>", "<gu>", "<ki>"}

\* a text as the functions above take it: the task types whose includes
\* tests of lines 65-71 are true for it, and the test of line 60
Heard(text) ==
  [text |-> text,
   kw |-> {ty \in TaskTypes :
             \E word \in Lexicon[ty] : includes(toLowerCase(text), word)},
   ja |-> \E i \in 1..Len(text) : text[i] \in Japanese]

\* the pieces the transcripts of SpecClassify are made of
Tokens ==
  { <<"R", "e", "g", "i", "s", "t", "e", "r">>, <<"o", "n">>,
    <<"b", "o", "a", "r", "d">>, <<" ">>, <<"F", "O", "L", "L", "O", "W">>,
    <<"c", "a", "t", "a", "l", "o", "g">>, <<"<ki>", "<roku>">>,
    <<"h", "e", "l", "l", "o">> }

RECURSIVE Flatten(_)
Flatten(pieces) ==
  IF pieces = <<>> THEN <<>> ELSE Head(pieces) \o Flatten(Tail(pieces))

\* getTaskSteps, lines 77-93
getTaskSteps(taskType, lang) ==
  IF taskType = "onboarding" THEN
    (IF lang = "ja" THEN <<"kokyaku", "ID", "plan", "keiyaku", "mail">>
     ELSE <<"Customer Info Collection", "ID Verification", "Plan Selection",
            "Contract Generation", "Email Sending">>)
  ELSE IF taskType = "followup" THEN
    (IF lang = "ja" THEN <<"kakunin", "sakusei", "soshin", "kiroku">>
     ELSE <<"Customer Status Check", "Follow-up Content Creation",
            "Email/SMS Sending", "Result Recording">>)
  ELSE
    (IF lang = "ja" THEN <<"homon", "sagyo", "form", "kanryo">>
     ELSE <<"Visit Info Recording", "Work Content Input", "Form Submission",
            "Completion Confirmation">>)

Min(a, b) == IF a < b THEN a ELSE b

\* currentTask = null
NoTask ==
  [id |-> 0, type |-> "null", status |-> "null", steps |-> <<>>,
   currentStep |-> 0, progress |-> 0]

\* recognitionRef.current = null
NoRec == [cl |-> [isActive |-> FALSE, isSpeaking |-> FALSE, isProcessing |-> FALSE,
                  currentTask |-> NoTask],
          st |-> "null"]

VARIABLES
  isActive, isListening, isSpeaking, isProcessing,   \* useState, lines 35-38
  conversation, currentTask, transcript,             \* useState, lines 43-45
  recognitionRef,     \* the recognition object recognitionRef.current holds
  orphans,            \* recognition objects no ref holds but that still run
  streamLive,         \* the tracks of streamRef.current are live
  starts,             \* toggleAgent calls waiting in getUserMedia
  welcomeTimers,      \* pending 1000 ms welcome timers
  timers,             \* pending 500 ms timers, oldest first
  convTimers,         \* pending 3000 ms continuation timers, oldest first
  convRefLive,        \* conversationTimeoutRef.current is the newest pending one
  synth,              \* utterances queued or playing in speechSynthesis
  lastSpoken,         \* the message and language of the last speakResponse call
  webSpeech,          \* 'speechSynthesis' in window, line 103
  speechCalls,        \* speakResponse calls of timers awaiting generateSpeech
  playCalls,          \* speakResponse calls of timers awaiting audio.play()
  audio,              \* Audio elements playing, lines 135-138
  errTimers,          \* pending 1000 ms timers of onerror, oldest first
  heard,              \* SpecClassify: the pieces of the transcript so far
  classified,         \* SpecClassify: determineTaskType of that transcript
  turns,              \* handleUserInput calls between dispatch and finally
  now,                \* Date.now(), in milliseconds since the mount
  nFinals, nStarts, nStops, nTasks,                  \* counters
  fate,               \* history: per final transcript, whether the component
                      \* and whether the receiving handler's render was
                      \* processing or speaking when it arrived
  createCalls,        \* history: blink.db.tasks.create calls, by task id
  updateCalls,        \* history: blink.db.tasks.update calls, by task id
  completeCalls       \* history: onTaskComplete calls, by task id

VARIABLES             \* VoiceInterface.tsx
  viIsRecording, viTranscript, viIsProcessing,       \* useState, lines 24-26
  viResponse, viTextInput, viIsSpeaking,             \* useState, lines 27-29
  hasRecognition,     \* 'SpeechRecognition' in window, line 217
  viRec,              \* recognitionRef.current: "null", "idle" or "running"
  viRecorder,         \* mediaRecorderRef.current: "null", "recording" or
                      \* "inactive"
  viStops,            \* recorders stopped whose onstop has not fired yet
  viCalls,            \* processCommand calls suspended in an await
  viAudio,            \* transcribeAudio calls suspended in an await
  viSpeakTimers,      \* pending 300 ms timers of lines 140 and 152
  viSynth,            \* utterances playing in speechSynthesis
  viCancelled,        \* cancelled utterances whose end event is pending
  nRecordings, nAudio,                               \* counters
  viCommands,         \* history: the argument of every processCommand call
  viOps,              \* history: per call, the operations it issued
  viStatus,           \* per call, the status of its record in the task store
  viOutcome           \* history: per call, "pending", "returned" (line 84),
                      \* "done", or the operation whose rejection was caught

VARIABLES             \* ContinuousVoiceInterface.tsx, lines 26-510
  cviIsListening, cviTranscript, cviIsProcessing,    \* useState, lines 27-29
  keigoMode,          \* useState, line 33
  cviRec,             \* the recognition object recognitionRef.current holds
  cviOrphans,         \* recognition objects no ref holds but that still run
  lastTranscriptRef,  \* useRef, line 42
  processingTimeout,  \* the pending 500 ms timer of line 192, or NoTimeout
  cviCalls,           \* processVoiceInput calls awaiting generateObject
  cviStopped,         \* history: the last click on the toggle was a stop
  burst,              \* history: the transcripts queued since a result last
                      \* arrived with no timer pending
  burstPassed,        \* history: the transcripts of that burst passed to
                      \* processVoiceInput
  nResults, nClicks, nSwitches                       \* counters

VARIABLES             \* AgentCards.tsx
  activeAgent, agentProgress,                        \* useState, lines 28-29
  runs,               \* executeAgent calls suspended in an await
  nTaskCreated,       \* calls of onTaskCreated
  nRuns               \* counter

agentVars ==
  <<isActive, isListening, isSpeaking, isProcessing, conversation, currentTask,
    transcript, recognitionRef, orphans, streamLive, starts, welcomeTimers,
    timers, convTimers, convRefLive, synth, lastSpoken, webSpeech,
    speechCalls, playCalls, audio, errTimers, heard, classified,
    turns, now, nFinals,
    nStarts, nStops, nTasks, fate, createCalls, updateCalls, completeCalls>>

voiceVars ==
  <<viIsRecording, viTranscript, viIsProcessing, viResponse, viTextInput,
    viIsSpeaking, hasRecognition, viRec, viRecorder, viStops, viCalls, viAudio,
    viSpeakTimers, viSynth, viCancelled, nRecordings, nAudio, viCommands,
    viOps, viStatus, viOutcome>>

continuousVars ==
  <<cviIsListening, cviTranscript, cviIsProcessing, keigoMode, cviRec,
    cviOrphans, lastTranscriptRef, processingTimeout, cviCalls, cviStopped,
    burst, burstPassed, nResults, nClicks, nSwitches>>

cardVars == <<activeAgent, agentProgress, runs, nTaskCreated, nRuns>>

vars == <<agentVars, voiceVars, continuousVars, cardVars>>

\* The values a callback created in the current render captures.  A handler
\* of a render that is processing or speaking returns at line 220 before it
\* reads currentTask, so the captured task of such a render is left out.
Render ==
  [isActive |-> isActive, isSpeaking |-> isSpeaking,
   isProcessing |-> isProcessing,
   currentTask |-> IF isProcessing \/ isSpeaking THEN NoTask ELSE currentTask]

\* VoiceInterface after its first render and the effect of lines 216-268
VoiceMounted ==
  /\ viIsRecording = FALSE /\ viTranscript = <<>> /\ viIsProcessing = FALSE
  /\ viResponse = "" /\ viTextInput = <<>> /\ viIsSpeaking = FALSE
  /\ viRec = (IF hasRecognition THEN "idle" ELSE "null")
  /\ viRecorder = "null" /\ viStops = 0
  /\ viCalls = {} /\ viAudio = {}
  /\ viSpeakTimers = 0 /\ viSynth = 0 /\ viCancelled = 0
  /\ nRecordings = 0 /\ nAudio = 0
  /\ viCommands = <<>> /\ viOps = <<>> /\ viStatus = <<>> /\ viOutcome = <<>>

\* no debounce timer is pending
NoTimeout == [text |-> <<>>, cl |-> [isListening |-> FALSE, isProcessing |-> FALSE],
              st |-> "null"]

\* ContinuousVoiceInterface after its first render and the effect of lines
\* 306-315, which creates the first recognition object
ContinuousMounted ==
  /\ cviIsListening = FALSE /\ cviTranscript = <<>>
  /\ cviIsProcessing = FALSE /\ keigoMode = TRUE
  /\ cviRec = [cl |-> [isListening |-> FALSE, isProcessing |-> FALSE],
               st |-> IF hasRecognition THEN "idle" ELSE "null"]
  /\ cviOrphans = {}
  /\ lastTranscriptRef = <<>> /\ processingTimeout = NoTimeout
  /\ cviCalls = 0 /\ cviStopped = FALSE
  /\ burst = <<>> /\ burstPassed = <<>>
  /\ nResults = 0 /\ nClicks = 0 /\ nSwitches = 0

\* the agent cards of lines 31-77
Agents == {"onboard", "followup", "ops"}

\* AgentCards after its first render; agentProgress[id] || 0, line 143
CardsMounted ==
  /\ activeAgent = "null"
  /\ agentProgress = [a \in Agents |-> 0]
  /\ runs = {} /\ nTaskCreated = 0 /\ nRuns = 0

\* the state after the first render, whatever the browser
Mounted ==
  /\ isActive = FALSE /\ isListening = FALSE
  /\ isSpeaking = FALSE /\ isProcessing = FALSE
  /\ conversation = <<>> /\ currentTask = NoTask /\ transcript = ""
  /\ recognitionRef = NoRec /\ orphans = {}
  /\ streamLive = FALSE /\ starts = <<>>
  /\ welcomeTimers = 0 /\ timers = <<>>
  /\ convTimers = <<>> /\ convRefLive = FALSE
  /\ synth = 0 /\ turns = {} /\ now = 0
  /\ lastSpoken = [what |-> "none", lang |-> "none"]
  /\ nFinals = 0 /\ nStarts = 0 /\ nStops = 0 /\ nTasks = 0
  /\ fate = <<>>
  /\ createCalls = <<>> /\ updateCalls = <<>> /\ completeCalls = <<>>
  /\ speechCalls = 0 /\ playCalls = 0 /\ audio = 0
  /\ errTimers = <<>>
  /\ heard = <<>> /\ classified = determineTaskType(Heard(<<>>))
  /\ VoiceMounted /\ ContinuousMounted /\ CardsMounted

\* a browser with the Web Speech synthesizer
Init == webSpeech = TRUE /\ hasRecognition = TRUE /\ Mounted

\* a browser with or without it
InitLive == webSpeech \in BOOLEAN /\ hasRecognition = TRUE /\ Mounted

(***************************************************************************)
(* Recognition objects, lines 351-414.  st is "idle" (created or ended,    *)
(* not started), "running", or "restart" (onend armed the 500 ms restart   *)
(* timer of line 405).                                                     *)
(***************************************************************************)
Alive(r) == r.st \in {"running", "restart"}

\* recognition.onend, lines 401-411: restart unless the captured render was
\* inactive, speaking or processing
RecognitionEnd(r) ==
  IF r.cl.isActive /\ ~r.cl.isSpeaking /\ ~r.cl.isProcessing
  THEN [r EXCEPT !.st = "restart"]
  ELSE [r EXCEPT !.st = "idle"]

\* a stop() that is never called
RecStopForgotten(r) == r

\* SpeechRecognition.stop(): a running session ends and fires onend
RecStop(r) == IF r.st = "running" THEN RecognitionEnd(r) ELSE r

\* the restart timers a stop() of r arms
RestartArmed(r) ==
  IF r.st = "running" /\ RecognitionEnd(r).st = "restart"
  THEN <<[kind |-> "restart", cl |-> r.cl]>> ELSE <<>>

AllRecs == {recognitionRef} \cup orphans

\* the ref and the orphans after recognition object r became new
RefAfter(r, new) == IF r = recognitionRef THEN new ELSE recognitionRef

OrphansAfter(r, new) ==
  IF r = recognitionRef THEN orphans
  ELSE (orphans \ {r}) \cup (IF Alive(new) THEN {new} ELSE {})

\* the orphans after recognitionRef.current is overwritten
OrphansWith(old) == IF Alive(old) THEN orphans \cup {old} ELSE orphans

(***************************************************************************)
(* The effect of lines 468-478, run after the render an action causes.     *)
(* Its dependencies change exactly when isActive, isSpeaking,              *)
(* isProcessing, conversation or currentTask changed (language and         *)
(* keigoMode are held fixed): initializeSpeechRecognition depends on       *)
(* handleUserInput, which depends on all of them (lines 315, 414, 478).    *)
(* The effect stops recognitionRef.current and arms the 500 ms timer that  *)
(* will replace it.  listening is isListening as the handler left it.      *)
(***************************************************************************)
DepsChanged ==
  <<isActive, isSpeaking, isProcessing, conversation, currentTask>>' #
  <<isActive, isSpeaking, isProcessing, conversation, currentTask>>

LanguageEffect(listening) ==
  IF DepsChanged /\ recognitionRef.st # "null" /\ isActive'
  THEN /\ recognitionRef' = RecStop(recognitionRef)
       /\ isListening' = (listening /\ recognitionRef.st # "running")
       /\ timers' = Append(timers, [kind |-> "effect", cl |-> Render'])
                      \o RestartArmed(recognitionRef)
  ELSE /\ UNCHANGED <<recognitionRef, timers>>
       /\ isListening' = listening

(***************************************************************************)
(* toggleAgent, lines 417-454.                                             *)
(***************************************************************************)
\* the click while inactive, up to the await of line 420
ToggleStart ==
  /\ ~isActive
  /\ nStarts < MaxStarts
  /\ isActive' = TRUE
  /\ starts' = Append(starts, Render)
  /\ nStarts' = nStarts + 1
  /\ UNCHANGED <<isSpeaking, isProcessing, conversation, currentTask,
                 transcript>>
  /\ LanguageEffect(isListening)
  /\ UNCHANGED <<voiceVars, continuousVars, cardVars, now, heard, classified,
                 speechCalls, errTimers, playCalls, audio, webSpeech,
                 lastSpoken, orphans, streamLive, welcomeTimers, convTimers,
                 convRefLive, synth, turns, nFinals, nStops, nTasks, fate,
                 createCalls, updateCalls, completeCalls>>

\* getUserMedia settles (lines 318-348; a rejection is caught at line 345),
\* then initializeSpeechRecognition of the clicked render (lines 351-414)
\* and the welcome timer (lines 428-430)
ToggleStartResume(granted) ==
  /\ starts # <<>>
  /\ starts' = Tail(starts)
  /\ streamLive' = (granted \/ streamLive)
  /\ recognitionRef' = [cl |-> Head(starts), st |-> "idle"]
  /\ orphans' = OrphansWith(recognitionRef)
  /\ welcomeTimers' = welcomeTimers + 1
  /\ UNCHANGED <<voiceVars, continuousVars, cardVars, now, heard, classified,
                 speechCalls, errTimers, playCalls, audio, webSpeech,
                 lastSpoken, isActive, isListening, isSpeaking, isProcessing,
                 conversation, currentTask, transcript, timers, convTimers,
                 convRefLive, synth, turns, nFinals, nStarts, nStops, nTasks,
                 fate, createCalls, updateCalls, completeCalls>>

\* the click while active, lines 431-453
ToggleStop ==
  /\ isActive
  /\ isActive' = FALSE /\ isListening' = FALSE
  /\ isSpeaking' = FALSE /\ isProcessing' = FALSE
  /\ recognitionRef' = RecStop(recognitionRef)
  /\ timers' = timers \o RestartArmed(recognitionRef)
  /\ streamLive' = FALSE
  /\ convTimers' = IF convRefLive THEN SubSeq(convTimers, 1, Len(convTimers) - 1)
                   ELSE convTimers
  /\ convRefLive' = FALSE
  /\ nStops' = nStops + 1
  /\ UNCHANGED <<conversation, currentTask, transcript>>
  /\ UNCHANGED <<voiceVars, continuousVars, cardVars, now, heard, classified,
                 speechCalls, errTimers, playCalls, audio, webSpeech,
                 lastSpoken, orphans, starts, welcomeTimers, synth, turns,
                 nFinals, nStarts, nTasks, fate, createCalls, updateCalls,
                 completeCalls>>

(***************************************************************************)
(* speakResponse, lines 96-144.  A non-blank text sets isSpeaking.  On the *)
(* Web Speech path one utterance is handed to speechSynthesis.speak, which *)
(* queues it behind the utterances it already has, and the call returns.   *)
(* Without speechSynthesis the call awaits blink.ai.generateSpeech and     *)
(* then audio.play(); a rejection of either is caught at line 140.         *)
(***************************************************************************)
\* a catch that leaves isSpeaking as it is
SpeakingLeftAsIs == isSpeaking

\* setIsSpeaking(false) of the catch, line 142
SpeakingAfterCatch == FALSE

\* speakResponse called by a timer (nothing awaits it): the welcome message
\* and the prompt of continueTaskFlow
SpeakResponse(what, lang, speaks) ==
  /\ isSpeaking' = (speaks \/ isSpeaking)
  /\ lastSpoken' = IF speaks THEN [what |-> what, lang |-> lang] ELSE lastSpoken
  /\ synth' = IF speaks /\ webSpeech THEN synth + 1 ELSE synth
  /\ speechCalls' = IF speaks /\ ~webSpeech THEN speechCalls + 1 ELSE speechCalls

\* the welcome timer of lines 428-430 fires
WelcomeTimer ==
  /\ welcomeTimers > 0
  /\ welcomeTimers' = welcomeTimers - 1
  /\ SpeakResponse("welcome", language, TRUE)
  /\ UNCHANGED <<isActive, isProcessing, conversation, currentTask,
                 transcript>>
  /\ LanguageEffect(isListening)
  /\ UNCHANGED <<voiceVars, continuousVars, cardVars, now, heard, classified,
                 errTimers, playCalls, audio, webSpeech, orphans, streamLive,
                 starts, convTimers, convRefLive, turns, nFinals, nStarts,
                 nStops, nTasks, fate, createCalls, updateCalls,
                 completeCalls>>

\* utterance.onend or utterance.onerror, lines 119-125
UtteranceEnd ==
  /\ synth > 0
  /\ synth' = synth - 1
  /\ isSpeaking' = FALSE
  /\ UNCHANGED <<isActive, isProcessing, conversation, currentTask,
                 transcript>>
  /\ LanguageEffect(isListening)
  /\ UNCHANGED <<voiceVars, continuousVars, cardVars, now, heard, classified,
                 speechCalls, errTimers, playCalls, audio, webSpeech,
                 lastSpoken, orphans, streamLive, starts, welcomeTimers,
                 convTimers, convRefLive, turns, nFinals, nStarts, nStops,
                 nTasks, fate, createCalls, updateCalls, completeCalls>>

\* the 3000 ms timer of lines 297-302 fires and runs continueTaskFlow
\* (lines 206-216) of the render that armed it
ConversationTimer ==
  /\ convTimers # <<>>
  /\ convTimers' = Tail(convTimers)
  /\ convRefLive' = (convRefLive /\ Len(convTimers) > 1)
  /\ LET cl == Head(convTimers)
         speaks == /\ cl.isActive /\ ~cl.isSpeaking
                   /\ cl.currentTask # NoTask
                   /\ cl.currentTask.status = "active"
     IN SpeakResponse("continue", language, speaks)
  /\ UNCHANGED <<isActive, isProcessing, conversation, currentTask,
                 transcript>>
  /\ LanguageEffect(isListening)
  /\ UNCHANGED <<voiceVars, continuousVars, cardVars, now, heard, classified,
                 errTimers, playCalls, audio, webSpeech, orphans, streamLive,
                 starts, welcomeTimers, turns, nFinals, nStarts, nStops,
                 nTasks, fate, createCalls, updateCalls, completeCalls>>

(***************************************************************************)
(* The 500 ms timers: the effect's (lines 471-476) and onend's (405-409).  *)
(***************************************************************************)
\* the timer of the effect fires: a new recognition object of the render
\* that armed the timer replaces recognitionRef.current and is started
\* unless that render was speaking; onstart sets isListening
EffectTimer ==
  /\ timers # <<>> /\ Head(timers).kind = "effect"
  /\ timers' = Tail(timers)
  /\ LET cl == Head(timers).cl
         started == cl.isActive /\ ~cl.isSpeaking
     IN /\ recognitionRef' = [cl |-> cl, st |-> IF started THEN "running" ELSE "idle"]
        /\ isListening' = (started \/ isListening)
  /\ orphans' = OrphansWith(recognitionRef)
  /\ UNCHANGED <<voiceVars, continuousVars, cardVars, now, heard, classified,
                 speechCalls, errTimers, playCalls, audio, webSpeech,
                 lastSpoken, isActive, isSpeaking, isProcessing,
                 conversation, currentTask, transcript, streamLive, starts,
                 welcomeTimers, convTimers, convRefLive, synth, turns,
                 nFinals, nStarts, nStops, nTasks, fate, createCalls,
                 updateCalls, completeCalls>>

\* the restart timer of onend fires: the ended recognition object, with the
\* handlers of the render it was created in, is started again
RestartTimer ==
  /\ timers # <<>> /\ Head(timers).kind = "restart"
  /\ timers' = Tail(timers)
  /\ LET r == [cl |-> Head(timers).cl, st |-> "restart"]
         new == [r EXCEPT !.st = IF r.cl.isActive THEN "running" ELSE "idle"]
     IN IF r \in AllRecs
        THEN /\ recognitionRef' = RefAfter(r, new)
             /\ orphans' = OrphansAfter(r, new)
             /\ isListening' = (r.cl.isActive \/ isListening)
        ELSE UNCHANGED <<recognitionRef, orphans, isListening>>
  /\ UNCHANGED <<voiceVars, continuousVars, cardVars, now, heard, classified,
                 speechCalls, errTimers, playCalls, audio, webSpeech,
                 lastSpoken, isActive, isSpeaking, isProcessing,
                 conversation, currentTask, transcript, streamLive, starts,
                 welcomeTimers, convTimers, convRefLive, synth, turns,
                 nFinals, nStarts, nStops, nTasks, fate, createCalls,
                 updateCalls, completeCalls>>

\* recognition.onresult with interim results only, lines 369-387
InterimResult(r) ==
  /\ r \in AllRecs /\ r.st = "running"
  /\ transcript' = "..."
  /\ UNCHANGED <<voiceVars, continuousVars, cardVars, now, heard, classified,
                 speechCalls, errTimers, playCalls, audio, webSpeech,
                 lastSpoken, isActive, isListening, isSpeaking, isProcessing,
                 conversation, currentTask, recognitionRef, orphans,
                 streamLive, starts, welcomeTimers, timers, convTimers,
                 convRefLive, synth, turns, nFinals, nStarts, nStops, nTasks,
                 fate, createCalls, updateCalls, completeCalls>>

(***************************************************************************)
(* handleUserInput, lines 219-315, and updateTaskContext, lines 147-203.   *)
(* A turn in flight is [tid, input, cl, pc, resp, task, epoch]: cl is the  *)
(* render whose handleUserInput runs, pc the await it is suspended in      *)
(* ("generate": line 269, "authme": line 175, "dbcreate": line 165,        *)
(* "dbupdate": line 193, "speech": line 130, "play": line 138), resp the   *)
(* response once it arrived ("error" when generateText rejected), task the *)
(* task updateTaskContext wrote, epoch the number of stops at dispatch.    *)
(***************************************************************************)
\* a log that takes the new turn at its head
WithTurnFirst(prev, turn) == <<turn>> \o prev

\* setConversation(prev => [...prev, turn]), lines 239 and 287
WithTurn(prev, turn) == Append(prev, turn)

\* a guard that forgets isProcessing
HandlerBusySpeakingOnly(cl) == cl.isSpeaking

\* the guard of line 220, on the values the handler captured
HandlerBusy(cl) == cl.isProcessing \/ cl.isSpeaking

\* recognition.onresult with a final result (lines 369-387) and the
\* synchronous part of handleUserInput (lines 219-272)
FinalResult(r, input) ==
  /\ r \in AllRecs /\ r.st = "running"
  /\ nFinals' = nFinals + 1
  /\ LET busy == HandlerBusy(r.cl)
     IN /\ fate' = Append(fate, [live |-> isProcessing \/ isSpeaking,
                                 captured |-> r.cl.isProcessing \/ r.cl.isSpeaking])
        /\ transcript' = IF busy THEN input.text ELSE ""
        /\ isProcessing' = (~busy \/ isProcessing)
        /\ conversation' =
             IF busy THEN conversation
             ELSE WithTurn(conversation,
                           [id |-> now, type |-> "user",
                            content |-> input.text, turn |-> nFinals + 1])
        /\ turns' =
             IF busy THEN turns
             ELSE turns \cup {[tid |-> nFinals + 1, input |-> input, cl |-> r.cl,
                               pc |-> "generate", resp |-> "", task |-> NoTask,
                               epoch |-> nStops]}
  /\ UNCHANGED <<isActive, isSpeaking, currentTask>>
  /\ LanguageEffect(isListening)
  /\ UNCHANGED <<voiceVars, continuousVars, cardVars, now, heard, classified,
                 speechCalls, errTimers, playCalls, audio, webSpeech,
                 lastSpoken, orphans, streamLive, starts, welcomeTimers,
                 convTimers, convRefLive, synth, nStarts, nStops, nTasks,
                 createCalls, updateCalls, completeCalls>>

\* a progress computed from the step before the advance
ProgressOfPreviousStep(step, len) == ((step - 1) * 100) \div len

\* (currentStep / steps.length) * 100, line 181; the double arithmetic is
\* exact for the 4- and 5-step lists
Progress(step, len) == (step * 100) \div len

\* lines 154-161
NewTask(taskType, lang) ==
  [id |-> nTasks + 1, type |-> taskType, status |-> "active",
   steps |-> getTaskSteps(taskType, lang), currentStep |-> 0, progress |-> 0]

\* lines 179-185
UpdatedTask(task) ==
  LET step == Min(task.currentStep + 1, Len(task.steps) - 1)
  IN [task EXCEPT !.currentStep = step,
                  !.progress = Progress(step, Len(task.steps)),
                  !.status = IF step >= Len(task.steps) - 1
                             THEN "completed" ELSE @]

\* the end of handleUserInput once speakResponse has returned: the
\* continuation timer of lines 296-303 on the success path when the captured
\* task is active, and the finally of lines 312-314
FinishTail(t, resp) ==
  /\ IF resp # "error" /\ t.cl.currentTask # NoTask
        /\ t.cl.currentTask.status = "active"
     THEN /\ convTimers' = Append(convTimers, t.cl)
          /\ convRefLive' = TRUE
     ELSE UNCHANGED <<convTimers, convRefLive>>
  /\ isProcessing' = FALSE
  /\ turns' = turns \ {t}

\* lines 292-314: speakResponse of the response (resp "text" or "blank") or
\* of the error notice (resp "error", line 311) and what follows it; without
\* speechSynthesis the turn is suspended in generateSpeech first
Finish(t, resp) ==
  LET speaks == resp # "blank"
  IN /\ isSpeaking' = (speaks \/ isSpeaking)
     /\ lastSpoken' =
          IF speaks
          THEN [what |-> IF resp = "error" THEN "error" ELSE "response",
                lang |-> detectLanguage(t.input)]
          ELSE lastSpoken
     /\ IF speaks /\ ~webSpeech
        THEN /\ turns' = (turns \ {t}) \cup {[t EXCEPT !.pc = "speech", !.resp = resp]}
             /\ UNCHANGED <<synth, convTimers, convRefLive, isProcessing>>
        ELSE /\ synth' = IF speaks THEN synth + 1 ELSE synth
             /\ FinishTail(t, resp)

\* blink.ai.generateText settles (line 269), up to the first await of
\* updateTaskContext; out is "text", "blank" (a response of white space)
\* or "error" (the call rejected, lines 305-314)
GenerateTextSettles(t, out) ==
  /\ t \in turns /\ t.pc = "generate"
  /\ IF out = "error"
     THEN /\ Finish(t, "error")
          /\ UNCHANGED <<conversation, currentTask, nTasks, createCalls,
                         updateCalls, completeCalls>>
     ELSE
       LET taskType == determineTaskType(t.input)
           lang == detectLanguage(t.input)
           ran(pc, task) == [t EXCEPT !.pc = pc, !.resp = out, !.task = task]
       IN /\ conversation' =
               WithTurn(conversation,
                        [id |-> now + 1, type |-> "agent", content |-> out,
                         turn |-> t.tid])
          /\ IF taskType # "null" /\ t.cl.currentTask = NoTask
             THEN /\ currentTask' = NewTask(taskType, lang)
                  /\ nTasks' = nTasks + 1
                  /\ createCalls' = Append(createCalls, 0)
                  /\ updateCalls' = Append(updateCalls, 0)
                  /\ completeCalls' = Append(completeCalls, 0)
                  /\ turns' = (turns \ {t}) \cup {ran("authme", NewTask(taskType, lang))}
                  /\ UNCHANGED <<isSpeaking, isProcessing, synth, lastSpoken,
                                 convTimers, convRefLive>>
             ELSE IF t.cl.currentTask # NoTask
             THEN LET updatedTask == UpdatedTask(t.cl.currentTask)
                  IN /\ currentTask' = updatedTask
                     /\ completeCalls' =
                          IF updatedTask.status = "completed"
                          THEN [completeCalls EXCEPT ![updatedTask.id] = @ + 1]
                          ELSE completeCalls
                     /\ updateCalls' = [updateCalls EXCEPT ![updatedTask.id] = @ + 1]
                     /\ turns' = (turns \ {t}) \cup {ran("dbupdate", updatedTask)}
                     /\ UNCHANGED <<isSpeaking, isProcessing, synth,
                                    lastSpoken, convTimers, convRefLive,
                                    nTasks, createCalls>>
             ELSE /\ Finish(t, out)
                  /\ UNCHANGED <<currentTask, nTasks, createCalls,
                                 updateCalls, completeCalls>>
  /\ UNCHANGED <<isActive, transcript>>
  /\ LanguageEffect(isListening)
  /\ UNCHANGED <<voiceVars, continuousVars, cardVars, now, heard, classified,
                 speechCalls, errTimers, playCalls, audio, webSpeech,
                 orphans, streamLive, starts, welcomeTimers, nFinals,
                 nStarts, nStops, fate>>

\* blink.auth.me() settles (line 175): tasks.create is called with the user
\* id, or the rejection is caught at line 200 and the turn goes on
AuthMeSettles(t, ok) ==
  /\ t \in turns /\ t.pc = "authme"
  /\ IF ok
     THEN /\ createCalls' = [createCalls EXCEPT ![t.task.id] = @ + 1]
          /\ turns' = (turns \ {t}) \cup {[t EXCEPT !.pc = "dbcreate"]}
          /\ UNCHANGED <<isSpeaking, isProcessing, synth, lastSpoken,
                         convTimers, convRefLive>>
     ELSE /\ Finish(t, t.resp)
          /\ UNCHANGED createCalls
  /\ UNCHANGED <<isActive, conversation, currentTask, transcript>>
  /\ LanguageEffect(isListening)
  /\ UNCHANGED <<voiceVars, continuousVars, cardVars, now, heard, classified,
                 speechCalls, errTimers, playCalls, audio, webSpeech,
                 orphans, streamLive, starts, welcomeTimers, nFinals,
                 nStarts, nStops, nTasks, fate, updateCalls, completeCalls>>

\* blink.db.tasks.create or tasks.update settles (lines 165, 193); a
\* rejection is caught at line 200, so both outcomes go on alike
TaskStoreSettles(t) ==
  /\ t \in turns /\ t.pc \in {"dbcreate", "dbupdate"}
  /\ Finish(t, t.resp)
  /\ UNCHANGED <<isActive, conversation, currentTask, transcript>>
  /\ LanguageEffect(isListening)
  /\ UNCHANGED <<voiceVars, continuousVars, cardVars, now, heard, classified,
                 speechCalls, errTimers, playCalls, audio, webSpeech,
                 orphans, streamLive, starts, welcomeTimers, nFinals,
                 nStarts, nStops, nTasks, fate, createCalls, updateCalls,
                 completeCalls>>

(***************************************************************************)
(* The fallback path of speakResponse, lines 129-139.                      *)
(***************************************************************************)
\* blink.ai.generateSpeech settles for the speakResponse a turn awaits
GenerateSpeechSettles(t, ok) ==
  /\ t \in turns /\ t.pc = "speech"
  /\ IF ok
     THEN /\ turns' = (turns \ {t}) \cup {[t EXCEPT !.pc = "play"]}
          /\ UNCHANGED <<isSpeaking, isProcessing, convTimers, convRefLive>>
     ELSE /\ isSpeaking' = SpeakingAfterCatch
          /\ FinishTail(t, t.resp)
  /\ UNCHANGED <<isActive, conversation, currentTask, transcript>>
  /\ LanguageEffect(isListening)
  /\ UNCHANGED <<voiceVars, continuousVars, cardVars, now, heard, classified,
                 orphans, streamLive, starts, welcomeTimers, synth,
                 lastSpoken, webSpeech, speechCalls, playCalls, audio,
                 errTimers, nFinals, nStarts, nStops, nTasks, fate,
                 createCalls, updateCalls, completeCalls>>

\* audio.play() settles for the speakResponse a turn awaits
AudioPlaySettles(t, ok) ==
  /\ t \in turns /\ t.pc = "play"
  /\ isSpeaking' = IF ok THEN isSpeaking ELSE SpeakingAfterCatch
  /\ audio' = IF ok THEN audio + 1 ELSE audio
  /\ FinishTail(t, t.resp)
  /\ UNCHANGED <<isActive, conversation, currentTask, transcript>>
  /\ LanguageEffect(isListening)
  /\ UNCHANGED <<voiceVars, continuousVars, cardVars, now, heard, classified,
                 orphans, streamLive, starts, welcomeTimers, synth,
                 lastSpoken, webSpeech, speechCalls, playCalls, errTimers,
                 nFinals, nStarts, nStops, nTasks, fate, createCalls,
                 updateCalls, completeCalls>>

\* blink.ai.generateSpeech settles for a speakResponse called by a timer
TimerSpeechSettles(ok) ==
  /\ speechCalls > 0
  /\ speechCalls' = speechCalls - 1
  /\ playCalls' = IF ok THEN playCalls + 1 ELSE playCalls
  /\ isSpeaking' = IF ok THEN isSpeaking ELSE SpeakingAfterCatch
  /\ UNCHANGED <<isActive, isProcessing, conversation, currentTask,
                 transcript>>
  /\ LanguageEffect(isListening)
  /\ UNCHANGED <<voiceVars, continuousVars, cardVars, now, heard, classified,
                 orphans, streamLive, starts, welcomeTimers, convTimers,
                 convRefLive, synth, lastSpoken, webSpeech, audio, errTimers,
                 turns, nFinals, nStarts, nStops, nTasks, fate, createCalls,
                 updateCalls, completeCalls>>

\* audio.play() settles for a speakResponse called by a timer
TimerPlaySettles(ok) ==
  /\ playCalls > 0
  /\ playCalls' = playCalls - 1
  /\ audio' = IF ok THEN audio + 1 ELSE audio
  /\ isSpeaking' = IF ok THEN isSpeaking ELSE SpeakingAfterCatch
  /\ UNCHANGED <<isActive, isProcessing, conversation, currentTask,
                 transcript>>
  /\ LanguageEffect(isListening)
  /\ UNCHANGED <<voiceVars, continuousVars, cardVars, now, heard, classified,
                 orphans, streamLive, starts, welcomeTimers, convTimers,
                 convRefLive, synth, lastSpoken, webSpeech, speechCalls,
                 errTimers, turns, nFinals, nStarts, nStops, nTasks, fate,
                 createCalls, updateCalls, completeCalls>>

\* audio.onended or audio.onerror, lines 136-137
AudioEnd ==
  /\ audio > 0
  /\ audio' = audio - 1
  /\ isSpeaking' = FALSE
  /\ UNCHANGED <<isActive, isProcessing, conversation, currentTask,
                 transcript>>
  /\ LanguageEffect(isListening)
  /\ UNCHANGED <<voiceVars, continuousVars, cardVars, now, heard, classified,
                 orphans, streamLive, starts, welcomeTimers, convTimers,
                 convRefLive, synth, lastSpoken, webSpeech, speechCalls,
                 playCalls, errTimers, turns, nFinals, nStarts, nStops,
                 nTasks, fate, createCalls, updateCalls, completeCalls>>

(***************************************************************************)
(* A recognition session that ends without a stop() call, lines 389-411.   *)
(* Recognition objects of renders with equal values are not told apart.    *)
(***************************************************************************)
\* onend of a running session, after onerror('no-speech') when noSpeech:
\* onerror arms its 1000 ms timer when the captured render was active,
\* onend clears isListening and arms the 500 ms restart
RecognitionEnds(r, noSpeech) ==
  /\ r \in AllRecs /\ r.st = "running"
  /\ recognitionRef' = RefAfter(r, RecognitionEnd(r))
  /\ orphans' = OrphansAfter(r, RecognitionEnd(r))
  /\ isListening' = FALSE
  /\ timers' = timers \o RestartArmed(r)
  /\ errTimers' = IF noSpeech /\ r.cl.isActive THEN Append(errTimers, r.cl)
                  ELSE errTimers
  /\ UNCHANGED <<voiceVars, continuousVars, cardVars, now, heard, classified,
                 isActive, isSpeaking, isProcessing, conversation,
                 currentTask, transcript, streamLive, starts, welcomeTimers,
                 convTimers, convRefLive, synth, lastSpoken, webSpeech,
                 speechCalls, playCalls, audio, turns, nFinals, nStarts,
                 nStops, nTasks, fate, createCalls, updateCalls,
                 completeCalls>>

\* the 1000 ms timer of onerror fires, lines 393-397: start() unless the
\* captured render was speaking; start() of a running session throws and
\* changes nothing
NoSpeechTimer ==
  /\ errTimers # <<>>
  /\ errTimers' = Tail(errTimers)
  /\ LET cl == Head(errTimers)
         running == [cl |-> cl, st |-> "running"]
     IN IF cl.isActive /\ ~cl.isSpeaking /\ running \notin AllRecs
        THEN /\ isListening' = TRUE
             /\ IF recognitionRef.cl = cl /\ recognitionRef.st # "null"
                THEN /\ recognitionRef' = running
                     /\ UNCHANGED orphans
                ELSE /\ orphans' = (orphans \ {[cl |-> cl, st |-> "restart"]})
                                     \cup {running}
                     /\ UNCHANGED recognitionRef
        ELSE UNCHANGED <<recognitionRef, orphans, isListening>>
  /\ UNCHANGED <<voiceVars, continuousVars, cardVars, now, heard, classified,
                 isActive, isSpeaking, isProcessing, conversation,
                 currentTask, transcript, streamLive, starts, welcomeTimers,
                 timers, convTimers, convRefLive, synth, lastSpoken,
                 webSpeech, speechCalls, playCalls, audio, turns, nFinals,
                 nStarts, nStops, nTasks, fate, createCalls, updateCalls,
                 completeCalls>>

(***************************************************************************)
(* determineTaskType applied to a transcript that grows piece by piece.    *)
(***************************************************************************)
Hear(token) ==
  /\ Len(heard) < MaxTokens
  /\ heard' = Append(heard, token)
  /\ classified' = determineTaskType(Heard(Flatten(heard')))
  /\ UNCHANGED <<voiceVars, continuousVars, cardVars, now, isActive,
                 isListening, isSpeaking, isProcessing, conversation,
                 currentTask, transcript, recognitionRef, orphans,
                 streamLive, starts, welcomeTimers, timers, convTimers,
                 convRefLive, synth, lastSpoken, webSpeech, speechCalls,
                 playCalls, audio, errTimers, turns, nFinals, nStarts,
                 nStops, nTasks, fate, createCalls, updateCalls,
                 completeCalls>>

\* a millisecond passes
Tick ==
  /\ now < MaxClock
  /\ now' = now + 1
  /\ UNCHANGED <<voiceVars, continuousVars, cardVars, isActive, isListening,
                 isSpeaking, isProcessing, conversation, currentTask,
                 transcript, recognitionRef, orphans, streamLive, starts,
                 welcomeTimers, timers, convTimers, convRefLive, synth,
                 lastSpoken, webSpeech, speechCalls, playCalls, audio,
                 errTimers, heard, classified, turns, nFinals, nStarts,
                 nStops, nTasks, fate, createCalls, updateCalls,
                 completeCalls>>

Next ==
  \/ ToggleStart
  \/ \E granted \in BOOLEAN : ToggleStartResume(granted)
  \/ ToggleStop
  \/ WelcomeTimer
  \/ UtteranceEnd
  \/ ConversationTimer
  \/ EffectTimer
  \/ RestartTimer
  \/ \E r \in AllRecs : InterimResult(r)
  \/ /\ nFinals < MaxFinals
     /\ \E r \in AllRecs, input \in Inputs : FinalResult(r, input)
  \/ \E t \in turns, out \in {"text", "blank", "error"} : GenerateTextSettles(t, out)
  \/ \E t \in turns, ok \in BOOLEAN : AuthMeSettles(t, ok)
  \/ \E t \in turns : TaskStoreSettles(t)

Spec == Init /\ [][Next]_vars

(***************************************************************************)
(* The same program over one session that is never stopped.  Every         *)
(* behaviour of SpecSession is a behaviour of Spec.                        *)
(***************************************************************************)
NextSession ==
  \/ ToggleStart
  \/ \E granted \in BOOLEAN : ToggleStartResume(granted)
  \/ WelcomeTimer
  \/ UtteranceEnd
  \/ ConversationTimer
  \/ EffectTimer
  \/ RestartTimer
  \/ \E r \in AllRecs : InterimResult(r)
  \/ /\ nFinals < MaxFinals
     /\ \E r \in AllRecs, input \in Inputs : FinalResult(r, input)
  \/ \E t \in turns, out \in {"text", "blank", "error"} : GenerateTextSettles(t, out)
  \/ \E t \in turns, ok \in BOOLEAN : AuthMeSettles(t, ok)
  \/ \E t \in turns : TaskStoreSettles(t)

SpecSession == Init /\ [][NextSession]_vars

(***************************************************************************)
(* The session that is never stopped, with the clock the turn ids are read *)
(* from (lines 232 and 278), every remote call succeeding.  Between two    *)
(* steps of the program any number of milliseconds may pass, none          *)
(* included.                                                               *)
(***************************************************************************)
NextClock ==
  \/ Tick
  \/ ToggleStart
  \/ ToggleStartResume(TRUE)
  \/ WelcomeTimer
  \/ UtteranceEnd
  \/ ConversationTimer
  \/ EffectTimer
  \/ RestartTimer
  \/ /\ nFinals < MaxFinals
     /\ \E r \in AllRecs, input \in Inputs : FinalResult(r, input)
  \/ \E t \in turns : GenerateTextSettles(t, "text")
  \/ \E t \in turns : AuthMeSettles(t, TRUE)
  \/ \E t \in turns : TaskStoreSettles(t)

SpecClock == Init /\ [][NextClock]_vars

(***************************************************************************)
(* The same program with a user who speaks turn by turn: a final result    *)
(* arrives only when every timer has fired, no call is outstanding and     *)
(* the synthesizer is silent (Quiescent); the session is not stopped and every remote  *)
(* call succeeds.  In SpecSerial the result comes from the recognition     *)
(* object recognitionRef holds, in SpecSerialAny from any running one.     *)
(* Every behaviour of either is a behaviour of the program; they reach     *)
(* the later turns of a task.                                              *)
(***************************************************************************)
Quiescent ==
  /\ starts = <<>> /\ welcomeTimers = 0 /\ timers = <<>>
  /\ convTimers = <<>> /\ synth = 0 /\ turns = {}
  /\ speechCalls = 0 /\ playCalls = 0 /\ audio = 0 /\ errTimers = <<>>

NextSerial ==
  \/ ToggleStart
  \/ ToggleStartResume(TRUE)
  \/ WelcomeTimer
  \/ UtteranceEnd
  \/ ConversationTimer
  \/ EffectTimer
  \/ RestartTimer
  \/ /\ Quiescent /\ nFinals < MaxSerialFinals
     /\ \E input \in Inputs : FinalResult(recognitionRef, input)
  \/ \E t \in turns : GenerateTextSettles(t, "text")
  \/ \E t \in turns : AuthMeSettles(t, TRUE)
  \/ \E t \in turns : TaskStoreSettles(t)

SpecSerial == Init /\ [][NextSerial]_vars

NextSerialAny ==
  \/ ToggleStart
  \/ ToggleStartResume(TRUE)
  \/ WelcomeTimer
  \/ UtteranceEnd
  \/ ConversationTimer
  \/ EffectTimer
  \/ RestartTimer
  \/ /\ Quiescent /\ nFinals < MaxSerialAnyFinals
     /\ \E r \in AllRecs, input \in Inputs : FinalResult(r, input)
  \/ \E t \in turns : GenerateTextSettles(t, "text")
  \/ \E t \in turns : AuthMeSettles(t, TRUE)
  \/ \E t \in turns : TaskStoreSettles(t)

SpecSerialAny == Init /\ [][NextSerialAny]_vars

(***************************************************************************)
(* The program over one session that is never stopped, in a browser with   *)
(* or without speechSynthesis, with recognition sessions that end on their *)
(* own, any number of times.  The user speaks, and a session ends on its   *)
(* own, when nothing is pending.  Internal is what the browser does        *)
(* without the user: timers that fire, calls that settle, utterances and   *)
(* audio that end.  The event loop runs a timer that is due and delivers a *)
(* settled promise or a media event, so a behaviour does not stop while    *)
(* one of them is pending; nothing obliges the user to speak or a session  *)
(* to end.                                                                 *)
(***************************************************************************)
Internal ==
  \/ \E granted \in BOOLEAN : ToggleStartResume(granted)
  \/ WelcomeTimer
  \/ UtteranceEnd
  \/ ConversationTimer
  \/ EffectTimer
  \/ RestartTimer
  \/ NoSpeechTimer
  \/ \E t \in turns, out \in {"text", "blank", "error"} : GenerateTextSettles(t, out)
  \/ \E t \in turns, ok \in BOOLEAN : AuthMeSettles(t, ok)
  \/ \E t \in turns : TaskStoreSettles(t)
  \/ \E t \in turns, ok \in BOOLEAN : GenerateSpeechSettles(t, ok)
  \/ \E t \in turns, ok \in BOOLEAN : AudioPlaySettles(t, ok)
  \/ \E ok \in BOOLEAN : TimerSpeechSettles(ok)
  \/ \E ok \in BOOLEAN : TimerPlaySettles(ok)
  \/ AudioEnd

NextLive ==
  \/ ToggleStart
  \/ Internal
  \/ /\ Quiescent
     /\ \E r \in AllRecs, noSpeech \in BOOLEAN : RecognitionEnds(r, noSpeech)
  \/ /\ Quiescent /\ nFinals < MaxLiveFinals
     /\ \E r \in AllRecs, input \in Inputs : FinalResult(r, input)

SpecLive == InitLive /\ [][NextLive]_vars /\ WF_vars(Internal)

(***************************************************************************)
(* determineTaskType on every transcript of at most MaxTokens pieces.      *)
(***************************************************************************)
NextClassify == \E token \in Tokens : Hear(token)

SpecClassify == Init /\ [][NextClassify]_vars

(***************************************************************************)
(* VoiceInterface, src/src/components/VoiceInterface.tsx.  The component   *)
(* is modelled with props that do not change (language, keigoMode,         *)
(* onActiveChange, onTaskCreated), so that the effect of lines 216-268     *)
(* runs once and one recognition object serves the whole run.  A command   *)
(* is a text given as its characters.  The Speak and Stop buttons of the   *)
(* response are not operated.                                              *)
(***************************************************************************)
\* what is said to the recogniser or typed into the text area
Utterances == { <<"s", "i", "m">>, <<" ">>, <<" ", "o", "k", " ">> }

RECURSIVE trimStart(_)
\* String.prototype.trimStart
trimStart(text) ==
  IF text # <<>> /\ Head(text) = " " THEN trimStart(Tail(text)) ELSE text

RECURSIVE trimEnd(_)
\* String.prototype.trimEnd
trimEnd(text) ==
  IF text # <<>> /\ text[Len(text)] = " "
  THEN trimEnd(SubSeq(text, 1, Len(text) - 1))
  ELSE text

\* a trim that leaves the text as it is
trimNothing(text) == text

\* String.prototype.trim, lines 84, 186, 242 and 330
trim(text) == trimEnd(trimStart(text))

\* speakResponse, lines 40-73: cancel() interrupts the utterance that plays,
\* whose error event then fires, and the new utterance is spoken
ViSpeakResponse ==
  IF webSpeech
  THEN /\ viCancelled' = viCancelled + viSynth
       /\ viSynth' = 1
       /\ viIsSpeaking' = TRUE
  ELSE UNCHANGED <<viCancelled, viSynth, viIsSpeaking>>

\* processCommand up to its first await, lines 83-92; awaited is the
\* transcribeAudio call that awaits it, 0 when there is none
processCommand(command, awaited) ==
  /\ viCommands' = Append(viCommands, command)
  /\ viStatus' = Append(viStatus, "none")
  /\ IF trim(command) = <<>>
     THEN /\ viOps' = Append(viOps, <<>>)
          /\ viOutcome' = Append(viOutcome, "returned")
          /\ UNCHANGED <<viIsProcessing, viResponse, viCalls>>
     ELSE /\ viOps' = Append(viOps, <<"auth.me">>)
          /\ viOutcome' = Append(viOutcome, "pending")
          /\ viIsProcessing' = TRUE
          /\ viResponse' = ""
          /\ viCalls' = viCalls \cup
               {[cid |-> Len(viCommands) + 1, pc |-> "auth.me", text |-> "",
                 awaited |-> awaited]}

\* the call issues its next remote operation and is suspended in it; text
\* is aiResponse.text once it is known
ViIssues(c, op, text) ==
  /\ viCalls' = (viCalls \ {c}) \cup {[c EXCEPT !.pc = op, !.text = text]}
  /\ viOps' = [viOps EXCEPT ![c.cid] = Append(@, op)]
  /\ UNCHANGED <<viIsProcessing, viSpeakTimers, viAudio, viOutcome>>

\* finally, lines 154-156; a transcribeAudio call that awaited this one
\* resumes at line 188 and runs its own finally, lines 196-198
ViFinally(c) ==
  /\ viIsProcessing' = FALSE
  /\ viCalls' = viCalls \ {c}
  /\ viAudio' = {a \in viAudio : a.aid # c.awaited}

\* a catch that sets no response
ResponseLeftAsIs == viResponse

\* setResponse(errorMsg), line 148
ResponseAfterCatch == "error"

\* catch and finally, lines 143-156, of a call whose operation c.pc rejected
ViCatch(c) ==
  /\ viResponse' = ResponseAfterCatch
  /\ viSpeakTimers' = IF webSpeech THEN viSpeakTimers + 1 ELSE viSpeakTimers
  /\ viOutcome' = [viOutcome EXCEPT ![c.cid] = c.pc]
  /\ ViFinally(c)
  /\ UNCHANGED <<viOps, viStatus>>

\* blink.auth.me() settles, line 92
ViAuthMeSettles(c, ok) ==
  /\ c \in viCalls /\ c.pc = "auth.me"
  /\ IF ok
     THEN /\ ViIssues(c, "tasks.create", "")
          /\ UNCHANGED <<viResponse, viStatus>>
     ELSE ViCatch(c)
  /\ UNCHANGED <<agentVars, continuousVars, cardVars>>
  /\ UNCHANGED <<viIsRecording, viTranscript, viTextInput, viIsSpeaking,
                 hasRecognition, viRec, viRecorder, viStops, viSynth,
                 viCancelled, nRecordings, nAudio, viCommands>>

\* blink.db.tasks.create settles, lines 94-104; a rejected call leaves no
\* record
ViCreateSettles(c, ok) ==
  /\ c \in viCalls /\ c.pc = "tasks.create"
  /\ IF ok
     THEN /\ viStatus' = [viStatus EXCEPT ![c.cid] = "processing"]
          /\ ViIssues(c, "ai.generateText", "")
          /\ UNCHANGED viResponse
     ELSE ViCatch(c)
  /\ UNCHANGED <<agentVars, continuousVars, cardVars>>
  /\ UNCHANGED <<viIsRecording, viTranscript, viTextInput, viIsSpeaking,
                 hasRecognition, viRec, viRecorder, viStops, viSynth,
                 viCancelled, nRecordings, nAudio, viCommands>>

\* blink.ai.generateText settles, lines 107-133; out is aiResponse.text
\* ("text" or the empty string) or "error"
ViGenerateSettles(c, out) ==
  /\ c \in viCalls /\ c.pc = "ai.generateText"
  /\ IF out # "error"
     THEN /\ viResponse' = out
          /\ ViIssues(c, "tasks.update", out)
          /\ UNCHANGED viStatus
     ELSE ViCatch(c)
  /\ UNCHANGED <<agentVars, continuousVars, cardVars>>
  /\ UNCHANGED <<viIsRecording, viTranscript, viTextInput, viIsSpeaking,
                 hasRecognition, viRec, viRecorder, viStops, viSynth,
                 viCancelled, nRecordings, nAudio, viCommands>>

\* blink.db.tasks.update settles, lines 129-156; a rejected call leaves the
\* record as it was
ViUpdateSettles(c, ok) ==
  /\ c \in viCalls /\ c.pc = "tasks.update"
  /\ IF ok
     THEN /\ viStatus' = [viStatus EXCEPT ![c.cid] = "completed"]
          /\ viOps' = [viOps EXCEPT ![c.cid] = Append(@, "onTaskCreated")]
          /\ viOutcome' = [viOutcome EXCEPT ![c.cid] = "done"]
          /\ viSpeakTimers' = IF webSpeech /\ c.text # ""
                              THEN viSpeakTimers + 1
                              ELSE viSpeakTimers
          /\ ViFinally(c)
          /\ UNCHANGED viResponse
     ELSE ViCatch(c)
  /\ UNCHANGED <<agentVars, continuousVars, cardVars>>
  /\ UNCHANGED <<viIsRecording, viTranscript, viTextInput, viIsSpeaking,
                 hasRecognition, viRec, viRecorder, viStops, viSynth,
                 viCancelled, nRecordings, nAudio, viCommands>>

\* a 300 ms timer of line 140 or 152 fires
ViSpeakTimer ==
  /\ viSpeakTimers > 0
  /\ viSpeakTimers' = viSpeakTimers - 1
  /\ ViSpeakResponse
  /\ UNCHANGED <<agentVars, continuousVars, cardVars>>
  /\ UNCHANGED <<viIsRecording, viTranscript, viIsProcessing, viResponse,
                 viTextInput, hasRecognition, viRec, viRecorder, viStops,
                 viCalls, viAudio, nRecordings, nAudio, viCommands, viOps,
                 viStatus, viOutcome>>

\* utterance.onend of the utterance that plays, line 69
ViUtteranceEnd ==
  /\ viSynth > 0
  /\ viSynth' = viSynth - 1
  /\ viIsSpeaking' = FALSE
  /\ UNCHANGED <<agentVars, continuousVars, cardVars>>
  /\ UNCHANGED <<viIsRecording, viTranscript, viIsProcessing, viResponse,
                 viTextInput, hasRecognition, viRec, viRecorder, viStops,
                 viCalls, viAudio, viSpeakTimers, viCancelled, nRecordings,
                 nAudio, viCommands, viOps, viStatus, viOutcome>>

\* utterance.onerror of an utterance that cancel() interrupted, line 70
ViCancelledEnd ==
  /\ viCancelled > 0
  /\ viCancelled' = viCancelled - 1
  /\ viIsSpeaking' = FALSE
  /\ UNCHANGED <<agentVars, continuousVars, cardVars>>
  /\ UNCHANGED <<viIsRecording, viTranscript, viIsProcessing, viResponse,
                 viTextInput, hasRecognition, viRec, viRecorder, viStops,
                 viCalls, viAudio, viSpeakTimers, viSynth, nRecordings,
                 nAudio, viCommands, viOps, viStatus, viOutcome>>

\* startRecording, lines 270-310 (the button is disabled while processing,
\* line 381); without a recognition object the call awaits getUserMedia,
\* whose rejection is caught at line 307
ViStartRecording(granted) ==
  /\ ~viIsRecording /\ ~viIsProcessing
  /\ nRecordings < MaxRecordings
  /\ nRecordings' = nRecordings + 1
  /\ IF viRec # "null"
     THEN /\ viTranscript' = <<>>
          /\ viIsRecording' = TRUE
          /\ viRec' = "running"
          /\ UNCHANGED viRecorder
     ELSE /\ viRecorder' = IF granted THEN "recording" ELSE viRecorder
          /\ viIsRecording' = granted
          /\ UNCHANGED <<viTranscript, viRec>>
  /\ UNCHANGED <<agentVars, continuousVars, cardVars>>
  /\ UNCHANGED <<viIsProcessing, viResponse, viTextInput, viIsSpeaking,
                 hasRecognition, viStops, viCalls, viAudio, viSpeakTimers,
                 viSynth, viCancelled, nAudio, viCommands, viOps, viStatus,
                 viOutcome>>

\* stopRecording, lines 312-326, with the onend of the recognition object
ViStopRecording ==
  /\ viIsRecording /\ ~viIsProcessing
  /\ viIsRecording' = FALSE
  /\ IF viRec # "null"
     THEN /\ viRec' = "idle"
          /\ UNCHANGED <<viRecorder, viStops>>
     ELSE /\ viRecorder' = "inactive"
          /\ viStops' = IF viRecorder = "recording" THEN viStops + 1
                        ELSE viStops
          /\ UNCHANGED viRec
  /\ UNCHANGED <<agentVars, continuousVars, cardVars>>
  /\ UNCHANGED <<viTranscript, viIsProcessing, viResponse, viTextInput,
                 viIsSpeaking, hasRecognition, viCalls, viAudio,
                 viSpeakTimers, viSynth, viCancelled, nRecordings, nAudio,
                 viCommands, viOps, viStatus, viOutcome>>

\* recognition.onerror / onend of a session that ends on its own, lines
\* 247-256
ViRecognitionEnds ==
  /\ viRec = "running"
  /\ viRec' = "idle"
  /\ viIsRecording' = FALSE
  /\ UNCHANGED <<agentVars, continuousVars, cardVars>>
  /\ UNCHANGED <<viTranscript, viIsProcessing, viResponse, viTextInput,
                 viIsSpeaking, hasRecognition, viRecorder, viStops, viCalls,
                 viAudio, viSpeakTimers, viSynth, viCancelled, nRecordings,
                 nAudio, viCommands, viOps, viStatus, viOutcome>>

\* recognition.onresult with a final result, lines 226-245
ViFinalResult(text) ==
  /\ viRec = "running"
  /\ viTranscript' = text
  /\ IF trim(text) # <<>>
     THEN processCommand(text, 0)
     ELSE UNCHANGED <<viIsProcessing, viResponse, viCalls, viCommands, viOps,
                      viStatus, viOutcome>>
  /\ UNCHANGED <<agentVars, continuousVars, cardVars>>
  /\ UNCHANGED <<viIsRecording, viTextInput, viIsSpeaking, hasRecognition,
                 viRec, viRecorder, viStops, viAudio, viSpeakTimers, viSynth,
                 viCancelled, nRecordings, nAudio>>

\* the text area's onChange, line 440 (disabled at line 444)
ViType(text) ==
  /\ ~viIsRecording /\ ~viIsProcessing
  /\ viTextInput' = text
  /\ UNCHANGED <<agentVars, continuousVars, cardVars>>
  /\ UNCHANGED <<viIsRecording, viTranscript, viIsProcessing, viResponse,
                 viIsSpeaking, hasRecognition, viRec, viRecorder, viStops,
                 viCalls, viAudio, viSpeakTimers, viSynth, viCancelled,
                 nRecordings, nAudio, viCommands, viOps, viStatus,
                 viOutcome>>

\* handleSubmit, lines 328-335 (the button is disabled at line 475)
ViHandleSubmit ==
  /\ ~((viTranscript = <<>> /\ trim(viTextInput) = <<>>) \/ viIsProcessing)
  /\ LET command == IF viTranscript # <<>> THEN viTranscript ELSE viTextInput
     IN IF trim(command) # <<>>
        THEN /\ processCommand(command, 0)
             /\ viTranscript' = <<>>
             /\ viTextInput' = <<>>
        ELSE UNCHANGED <<viIsProcessing, viResponse, viCalls, viCommands,
                         viOps, viStatus, viOutcome, viTranscript,
                         viTextInput>>
  /\ UNCHANGED <<agentVars, continuousVars, cardVars>>
  /\ UNCHANGED <<viIsRecording, viIsSpeaking, hasRecognition, viRec,
                 viRecorder, viStops, viAudio, viSpeakTimers, viSynth,
                 viCancelled, nRecordings, nAudio>>

\* mediaRecorder.onstop, lines 296-300, and transcribeAudio up to its first
\* await, lines 160-165
ViRecorderStopped ==
  /\ viStops > 0
  /\ viStops' = viStops - 1
  /\ viIsProcessing' = TRUE
  /\ nAudio' = nAudio + 1
  /\ viAudio' = viAudio \cup {[aid |-> nAudio + 1, pc |-> "transcribe"]}
  /\ UNCHANGED <<agentVars, continuousVars, cardVars>>
  /\ UNCHANGED <<viIsRecording, viTranscript, viResponse, viTextInput,
                 viIsSpeaking, hasRecognition, viRec, viRecorder, viCalls,
                 viSpeakTimers, viSynth, viCancelled, nRecordings,
                 viCommands, viOps, viStatus, viOutcome>>

\* the FileReader and blink.ai.transcribeAudio settle, lines 165-198; out is
\* result.text when the calls resolved
ViTranscribeSettles(a, ok, out) ==
  /\ a \in viAudio /\ a.pc = "transcribe"
  /\ IF ~ok
     THEN /\ viResponse' = "transcription error"
          /\ ViSpeakResponse
          /\ viIsProcessing' = FALSE
          /\ viAudio' = viAudio \ {a}
          /\ UNCHANGED <<viTranscript, viCalls, viCommands, viOps, viStatus,
                         viOutcome>>
     ELSE /\ viTranscript' = out
          /\ UNCHANGED <<viCancelled, viSynth, viIsSpeaking>>
          /\ IF trim(out) # <<>>
             THEN /\ processCommand(out, a.aid)
                  /\ viAudio' = (viAudio \ {a}) \cup {[a EXCEPT !.pc = "command"]}
             ELSE /\ viIsProcessing' = FALSE
                  /\ viAudio' = viAudio \ {a}
                  /\ UNCHANGED <<viResponse, viCalls, viCommands, viOps,
                                 viStatus, viOutcome>>
  /\ UNCHANGED <<agentVars, continuousVars, cardVars>>
  /\ UNCHANGED <<viIsRecording, viTextInput, hasRecognition, viRec,
                 viRecorder, viStops, viSpeakTimers, nRecordings, nAudio>>

\* a browser with or without SpeechRecognition
InitVoice == webSpeech = TRUE /\ hasRecognition \in BOOLEAN /\ Mounted

\* the remote calls of processCommand settling, and the speech that follows
ViSettles ==
  \/ \E c \in viCalls, ok \in BOOLEAN : ViAuthMeSettles(c, ok)
  \/ \E c \in viCalls, ok \in BOOLEAN : ViCreateSettles(c, ok)
  \/ \E c \in viCalls, out \in {"text", "", "error"} : ViGenerateSettles(c, out)
  \/ \E c \in viCalls, ok \in BOOLEAN : ViUpdateSettles(c, ok)
  \/ ViSpeakTimer
  \/ ViUtteranceEnd
  \/ ViCancelledEnd

NextVoice ==
  \/ \E granted \in BOOLEAN : ViStartRecording(granted)
  \/ ViStopRecording
  \/ ViRecognitionEnds
  \/ /\ Len(viCommands) < MaxVoiceCommands
     /\ \E text \in Utterances : ViFinalResult(text)
  \/ \E text \in Utterances : ViType(text)
  \/ /\ Len(viCommands) < MaxVoiceCommands
     /\ ViHandleSubmit
  \/ ViRecorderStopped
  \/ /\ Len(viCommands) < MaxVoiceCommands
     /\ \E a \in viAudio, ok \in BOOLEAN, out \in Utterances :
          ViTranscribeSettles(a, ok, out)
  \/ ViSettles

SpecVoice == InitVoice /\ [][NextVoice]_vars

(***************************************************************************)
(* processCommand called with any command, blank ones included (its        *)
(* callers in the component test the command before they call it).         *)
(***************************************************************************)
ViCall(command) ==
  /\ processCommand(command, 0)
  /\ UNCHANGED <<agentVars, continuousVars, cardVars>>
  /\ UNCHANGED <<viIsRecording, viTranscript, viTextInput, viIsSpeaking,
                 hasRecognition, viRec, viRecorder, viStops, viAudio,
                 viSpeakTimers, viSynth, viCancelled, nRecordings, nAudio>>

NextCommand ==
  \/ /\ Len(viCommands) < MaxCommands
     /\ \E command \in Utterances \cup {<<>>} : ViCall(command)
  \/ ViSettles

SpecCommand == Init /\ [][NextCommand]_vars

(***************************************************************************)
(* ContinuousVoiceInterface, the component of lines 26-510 of              *)
(* src/src/components/ContinuousVoiceInterface.tsx.  A recognition object  *)
(* is [cl, st]: cl holds the isListening and isProcessing values of the    *)
(* render that created it (its onend reads the first, the                  *)
(* processVoiceInput its onresult passes to the timer reads the second),   *)
(* st is "idle" (created or ended), "starting" (start() called), "running" *)
(* (onstart fired), "stopping" (stop() called: the recogniser returns the  *)
(* results of the audio it has, then fires onend) or "restart" (onend      *)
(* armed the 100 ms timer of line 208; CviNeverRestarts shows that no      *)
(* object gets there).  The language and Auto Speak controls are not       *)
(* operated; the context, the options and the speech of lines 112-140 are  *)
(* not part of the state.                                                  *)
(***************************************************************************)
\* recognition.stop()
CviStop(r) ==
  IF r.st \in {"starting", "running"} THEN [r EXCEPT !.st = "stopping"] ELSE r

\* the object has an event or a timer to come
CviAlive(r) == r.st \in {"starting", "running", "stopping", "restart"}

CviRecs == {cviRec} \cup cviOrphans

\* recognitionRef.current and the other objects after a handler changed
\* object r into new
CviRefAfter(r, new) == IF r = cviRec THEN new ELSE cviRec

CviOrphansAfter(r, new) ==
  IF r = cviRec THEN cviOrphans
  ELSE (cviOrphans \ {r}) \cup (IF CviAlive(new) THEN {new} ELSE {})

\* clearTimeout(processingTimeoutRef.current) in the cleanup, lines 311-313
TimeoutAfterCleanup(timeout) == NoTimeout

\* The render after a handler and the effect of lines 306-315.  Its
\* dependency initializeSpeechRecognition changes when isListening,
\* isProcessing or keigoMode changed (lines 147 and 219); then the cleanup
\* stops recognitionRef.current and clears the debounce timer, and a new
\* recognition object of the new render is created, not started.  rec,
\* orph and timeout are the values the handler left.
CviRender(rec, orph, timeout) ==
  IF /\ <<cviIsListening, cviIsProcessing, keigoMode>>' #
          <<cviIsListening, cviIsProcessing, keigoMode>>
     /\ hasRecognition
  THEN /\ cviRec' = [cl |-> [isListening |-> cviIsListening',
                             isProcessing |-> cviIsProcessing'],
                     st |-> "idle"]
       /\ cviOrphans' =
            orph \cup (IF CviAlive(CviStop(rec)) THEN {CviStop(rec)} ELSE {})
       /\ processingTimeout' = TimeoutAfterCleanup(timeout)
  ELSE /\ cviRec' = rec
       /\ cviOrphans' = orph
       /\ processingTimeout' = timeout

\* toggleListening, lines 293-303: the stop branch, or the start branch,
\* where start() of an object that is not idle throws
CviToggleListening ==
  /\ nClicks' = nClicks + 1
  /\ cviStopped' = cviIsListening
  /\ IF cviIsListening
     THEN /\ cviIsListening' = FALSE
          /\ UNCHANGED <<cviIsProcessing, keigoMode>>
          /\ CviRender(CviStop(cviRec), cviOrphans, processingTimeout)
     ELSE /\ cviRec' = IF cviRec.st = "idle"
                       THEN [cviRec EXCEPT !.st = "starting"]
                       ELSE cviRec
          /\ UNCHANGED <<cviIsListening, cviIsProcessing, keigoMode,
                         cviOrphans, processingTimeout>>
  /\ UNCHANGED <<agentVars, voiceVars, cardVars>>
  /\ UNCHANGED <<cviTranscript, lastTranscriptRef, cviCalls, burst,
                 burstPassed, nResults, nSwitches>>

\* recognition.onstart, lines 163-165
CviOnStart(r) ==
  /\ r \in CviRecs /\ r.st = "starting"
  /\ cviIsListening' = TRUE
  /\ UNCHANGED <<cviIsProcessing, keigoMode>>
  /\ LET new == [r EXCEPT !.st = "running"]
     IN CviRender(CviRefAfter(r, new), CviOrphansAfter(r, new),
                  processingTimeout)
  /\ UNCHANGED <<agentVars, voiceVars, cardVars>>
  /\ UNCHANGED <<cviTranscript, lastTranscriptRef, cviCalls, cviStopped,
                 burst, burstPassed, nResults, nClicks, nSwitches>>

\* recognition.onresult, lines 167-196; text is finalTranscript ||
\* interimTranscript
CviResult(r, text) ==
  /\ r \in CviRecs /\ r.st \in {"running", "stopping"}
  /\ nResults' = nResults + 1
  /\ cviTranscript' = text
  /\ IF trim(text) # <<>> /\ text # lastTranscriptRef
     THEN /\ lastTranscriptRef' = text
          /\ processingTimeout' = [text |-> text, cl |-> r.cl, st |-> "armed"]
          /\ burst' = IF processingTimeout.st = "armed"
                      THEN Append(burst, text)
                      ELSE <<text>>
          /\ burstPassed' = IF processingTimeout.st = "armed"
                            THEN burstPassed
                            ELSE <<>>
     ELSE UNCHANGED <<lastTranscriptRef, processingTimeout, burst,
                      burstPassed>>
  /\ UNCHANGED <<agentVars, voiceVars, cardVars>>
  /\ UNCHANGED <<cviIsListening, cviIsProcessing, keigoMode, cviRec,
                 cviOrphans, cviCalls, cviStopped, nClicks, nSwitches>>

\* recognition.onend, lines 205-216
CviEnd(r) ==
  /\ r \in CviRecs /\ r.st \in {"running", "stopping"}
  /\ LET new == [r EXCEPT !.st = IF r.cl.isListening THEN "restart"
                                 ELSE "idle"]
     IN /\ cviRec' = CviRefAfter(r, new)
        /\ cviOrphans' = CviOrphansAfter(r, new)
  /\ UNCHANGED <<agentVars, voiceVars, cardVars>>
  /\ UNCHANGED <<cviIsListening, cviTranscript, cviIsProcessing, keigoMode,
                 lastTranscriptRef, processingTimeout, cviCalls, cviStopped,
                 burst, burstPassed, nResults, nClicks, nSwitches>>

\* Every object that was started was created by a render whose isListening
\* was false: start() is only reached from the click of line 300, while
\* isListening is false, and every change of isListening replaces
\* recognitionRef.current.  Hence no onend takes the branch of lines
\* 206-215 and its 100 ms timer is never armed.
CviNeverRestarts ==
  \A r \in CviRecs : CviAlive(r) => ~r.cl.isListening /\ r.st # "restart"

\* the debounce timer fires, lines 192-194, and processVoiceInput up to its
\* await, lines 66-73; the guard of line 67 reads the captured isProcessing
CviDebounceTimer ==
  /\ processingTimeout.st = "armed"
  /\ burstPassed' = Append(burstPassed, processingTimeout.text)
  /\ UNCHANGED <<cviIsListening, keigoMode>>
  /\ IF trim(processingTimeout.text) = <<>> \/ processingTimeout.cl.isProcessing
     THEN /\ UNCHANGED <<cviIsProcessing, cviCalls, cviRec, cviOrphans>>
          /\ processingTimeout' = NoTimeout
     ELSE /\ cviIsProcessing' = TRUE
          /\ cviCalls' = cviCalls + 1
          /\ CviRender(cviRec, cviOrphans, NoTimeout)
  /\ UNCHANGED <<agentVars, voiceVars, cardVars>>
  /\ UNCHANGED <<cviTranscript, lastTranscriptRef, cviStopped, burst,
                 nResults, nClicks, nSwitches>>

\* blink.ai.generateObject settles, lines 73-146: resolved or rejected, the
\* finally clears isProcessing
CviGenerateObjectSettles ==
  /\ cviCalls > 0
  /\ cviCalls' = cviCalls - 1
  /\ cviIsProcessing' = FALSE
  /\ UNCHANGED <<cviIsListening, keigoMode>>
  /\ CviRender(cviRec, cviOrphans, processingTimeout)
  /\ UNCHANGED <<agentVars, voiceVars, cardVars>>
  /\ UNCHANGED <<cviTranscript, lastTranscriptRef, cviStopped, burst,
                 burstPassed, nResults, nClicks, nSwitches>>

\* the Keigo Mode switch, lines 365-368
CviKeigoSwitch ==
  /\ nSwitches' = nSwitches + 1
  /\ keigoMode' = ~keigoMode
  /\ UNCHANGED <<cviIsListening, cviIsProcessing>>
  /\ CviRender(cviRec, cviOrphans, processingTimeout)
  /\ UNCHANGED <<agentVars, voiceVars, cardVars>>
  /\ UNCHANGED <<cviTranscript, lastTranscriptRef, cviCalls, cviStopped,
                 burst, burstPassed, nResults, nClicks>>

NextContinuous ==
  \/ nClicks < MaxClicks /\ CviToggleListening
  \/ \E r \in CviRecs : CviOnStart(r)
  \/ /\ nResults < MaxResults
     /\ \E r \in CviRecs, text \in Utterances : CviResult(r, text)
  \/ \E r \in CviRecs : CviEnd(r)
  \/ CviDebounceTimer
  \/ CviGenerateObjectSettles
  \/ nSwitches < MaxSwitches /\ CviKeigoSwitch

SpecContinuous == Init /\ [][NextContinuous]_vars

(***************************************************************************)
(* AgentCards, src/src/components/AgentCards.tsx.  A run of executeAgent   *)
(* is [rid, agentId, pc, i]: pc is the await it is suspended in and i the  *)
(* loop variable of line 102.  onTaskCreated is a callback of the parent   *)
(* and changes nothing here; its calls are counted.                        *)
(***************************************************************************)
\* finally, lines 128-131
AcFinally(r) ==
  /\ activeAgent' = "null"
  /\ agentProgress' = [agentProgress EXCEPT ![r.agentId] = 0]
  /\ runs' = runs \ {r}

\* the run is suspended in its next await
AcGoesOn(r, pc, i) ==
  /\ runs' = (runs \ {r}) \cup {[r EXCEPT !.pc = pc, !.i = i]}
  /\ UNCHANGED activeAgent

\* the click on the Execute button of a card, disabled while the card is
\* the active one (line 157); executeAgent up to its first await, lines
\* 79-84
ExecuteAgent(agentId) ==
  /\ activeAgent # agentId
  /\ nRuns < MaxRuns
  /\ nRuns' = nRuns + 1
  /\ activeAgent' = agentId
  /\ agentProgress' = [agentProgress EXCEPT ![agentId] = 0]
  /\ runs' = runs \cup {[rid |-> nRuns + 1, agentId |-> agentId,
                         pc |-> "auth.me", i |-> 0]}
  /\ UNCHANGED <<agentVars, voiceVars, continuousVars, nTaskCreated>>

\* blink.auth.me() settles, line 84
AcAuthMeSettles(r, ok) ==
  /\ r \in runs /\ r.pc = "auth.me"
  /\ IF ok
     THEN AcGoesOn(r, "tasks.create", 0) /\ UNCHANGED agentProgress
     ELSE AcFinally(r)
  /\ UNCHANGED <<agentVars, voiceVars, continuousVars, nTaskCreated, nRuns>>

\* blink.db.tasks.create settles, lines 89-104: the first pass of the loop
AcCreateSettles(r, ok) ==
  /\ r \in runs /\ r.pc = "tasks.create"
  /\ IF ok
     THEN /\ AcGoesOn(r, "timeout", 0)
          /\ agentProgress' = [agentProgress EXCEPT ![r.agentId] = 0]
     ELSE AcFinally(r)
  /\ UNCHANGED <<agentVars, voiceVars, continuousVars, nTaskCreated, nRuns>>

\* the loop after its update of i, lines 102-104, or past its end, line 115
AcNextPass(r, i) ==
  IF i <= 100
  THEN /\ AcGoesOn(r, "timeout", i)
       /\ agentProgress' = [agentProgress EXCEPT ![r.agentId] = i]
  ELSE /\ AcGoesOn(r, "complete", i)
       /\ UNCHANGED agentProgress

\* the 200 ms timer of line 104 fires, lines 104-115
AcTimeout(r) ==
  /\ r \in runs /\ r.pc = "timeout"
  /\ IF r.i = 50
     THEN AcGoesOn(r, "tasks.update", r.i) /\ UNCHANGED agentProgress
     ELSE AcNextPass(r, r.i + 10)
  /\ UNCHANGED <<agentVars, voiceVars, continuousVars, nTaskCreated, nRuns>>

\* the tasks.update of line 108 settles
AcUpdateSettles(r, ok) ==
  /\ r \in runs /\ r.pc = "tasks.update"
  /\ IF ok THEN AcNextPass(r, r.i + 10) ELSE AcFinally(r)
  /\ UNCHANGED <<agentVars, voiceVars, continuousVars, nTaskCreated, nRuns>>

\* the tasks.update of line 115 settles, lines 115-131: resolved
\* (onTaskCreated, line 124) or rejected (the catch of line 126), the
\* finally follows
AcCompleteSettles(r, ok) ==
  /\ r \in runs /\ r.pc = "complete"
  /\ nTaskCreated' = IF ok THEN nTaskCreated + 1 ELSE nTaskCreated
  /\ AcFinally(r)
  /\ UNCHANGED <<agentVars, voiceVars, continuousVars, nRuns>>

NextCards ==
  \/ \E agentId \in Agents : ExecuteAgent(agentId)
  \/ \E r \in runs, ok \in BOOLEAN : AcAuthMeSettles(r, ok)
  \/ \E r \in runs, ok \in BOOLEAN : AcCreateSettles(r, ok)
  \/ \E r \in runs : AcTimeout(r)
  \/ \E r \in runs, ok \in BOOLEAN : AcUpdateSettles(r, ok)
  \/ \E r \in runs, ok \in BOOLEAN : AcCompleteSettles(r, ok)

SpecCards == Init /\ [][NextCards]_vars

(***************************************************************************)
(* C1.  At most one blink.ai.generateText call issued by handleUserInput   *)
(* is in flight at any time.                                               *)
(***************************************************************************)
InFlight == {t \in turns : t.pc = "generate"}

C1_OneInferenceInFlight == Cardinality(InFlight) <= 1

\* the number of times final transcript i was dispatched: its user turns
Dispatches(i) ==
  Cardinality({k \in DOMAIN conversation :
                 conversation[k].type = "user" /\ conversation[k].turn = i})

StaleTurnSteps == \E t \in turns : t.epoch < nStops /\ t \notin turns'

C3_StaleResponseIgnored ==
  [][StaleTurnSteps =>
       /\ conversation' = conversation /\ currentTask' = currentTask
       /\ createCalls' = createCalls /\ updateCalls' = updateCalls
       /\ synth' = synth]_vars

(***************************************************************************)
(* C4.  The step of toggleAgent that stops an active session leaves        *)
(* isActive, isListening, isSpeaking and isProcessing false, the           *)
(* recognition object held by recognitionRef stopped and the tracks of     *)
(* the held stream stopped, whatever is still outstanding.                 *)
(***************************************************************************)
C4_StopIsSynchronous ==
  [][nStops' # nStops =>
       /\ ~isActive' /\ ~isListening' /\ ~isSpeaking' /\ ~isProcessing'
       /\ recognitionRef'.st # "running"
       /\ ~streamLive']_vars

\* stopped while a remote-inference call was outstanding: the recognizer
\* was running and has ended, the microphone stream is released
C4_Witness ==
  /\ nStops = 1 /\ ~isActive /\ ~isListening /\ ~isSpeaking /\ ~isProcessing
  /\ \E t \in turns : t.pc = "generate" /\ t.epoch = 0
  /\ recognitionRef.st = "restart"
  /\ ~streamLive

(***************************************************************************)
(* C5.  While the TaskContext is active, no turn creates a further         *)
(* TaskContext.                                                            *)
(***************************************************************************)
C5_NoSecondTaskWhileActive ==
  [][currentTask.status = "active" => nTasks' = nTasks]_vars

(***************************************************************************)
(* C6.  currentStep stays within 0 .. steps.length - 1 and never decreases *)
(* for a TaskContext.                                                      *)
(***************************************************************************)
C6_StepInRange ==
  currentTask # NoTask =>
    /\ 0 <= currentTask.currentStep
    /\ currentTask.currentStep <= Len(currentTask.steps) - 1

C6_StepMonotone ==
  /\ []C6_StepInRange
  /\ [][currentTask'.id = currentTask.id =>
          currentTask'.currentStep >= currentTask.currentStep]_vars

(***************************************************************************)
(* C7.  onTaskComplete is invoked at most once for each TaskContext: a     *)
(* turn processed after the completion never invokes it again.             *)
(***************************************************************************)
C7_CompleteOnce == \A i \in DOMAIN completeCalls : completeCalls[i] <= 1

(***************************************************************************)
(* C8.  A turn whose remote inference succeeds while the TaskContext is    *)
(* active advances currentStep by exactly one, clamped to the last step;   *)
(* the turn that creates a TaskContext leaves it at step 0; a turn whose   *)
(* remote inference fails leaves the TaskContext alone.                    *)
(***************************************************************************)
\* a generateText call settles in this step; with success the agent turn is
\* appended
Settles == \E t \in turns : t.pc = "generate" /\ t \notin turns'

Succeeds == Settles /\ Len(conversation') > Len(conversation)

C8_StepAdvancesByOne ==
  [][/\ (Succeeds /\ currentTask.status = "active") =>
          /\ currentTask'.id = currentTask.id
          /\ currentTask'.currentStep =
               Min(currentTask.currentStep + 1, Len(currentTask.steps) - 1)
     /\ (Succeeds /\ currentTask = NoTask /\ currentTask' # NoTask) =>
          currentTask'.currentStep = 0
     /\ (Settles /\ ~Succeeds) => currentTask' = currentTask]_vars

(***************************************************************************)
(* C9.  progress is 100 * currentStep / steps.length in every state with a *)
(* TaskContext, so a completed task has 100 * (steps.length - 1) /         *)
(* steps.length.                                                           *)
(***************************************************************************)
C9_ProgressDerived ==
  currentTask # NoTask =>
    /\ currentTask.progress * Len(currentTask.steps) = 100 * currentTask.currentStep
    /\ currentTask.status = "completed" =>
         currentTask.progress * Len(currentTask.steps) =
           100 * (Len(currentTask.steps) - 1)

\* the 5-step onboarding task after one advance: 20
C9_Witness ==
  /\ currentTask.type = "onboarding" /\ currentTask.currentStep = 1
  /\ currentTask.progress = 20

(***************************************************************************)
(* C10.  A matching transcript whose turn succeeds while no task is        *)
(* active, also when the previous task is completed, starts a new          *)
(* TaskContext at step 0.                                                  *)
(***************************************************************************)
SucceedsMatching ==
  \E t \in turns :
     /\ t.pc = "generate" /\ t \notin turns'
     /\ Len(conversation') > Len(conversation)
     /\ determineTaskType(t.input) # "null"

C10_NewTaskWhenNoneActive ==
  [][(SucceedsMatching /\ currentTask.status # "active") =>
       /\ nTasks' = nTasks + 1
       /\ currentTask'.id = nTasks'
       /\ currentTask'.status = "active" /\ currentTask'.currentStep = 0]_vars

DeviceFails == starts # <<>> /\ starts' = Tail(starts) /\ ~streamLive'

C12_DeviceFailureStaysIdle ==
  [][DeviceFails =>
       /\ ~isActive'
       /\ recognitionRef' = recognitionRef
       /\ welcomeTimers' = welcomeTimers]_vars

(***************************************************************************)
(* C13.  speechSynthesis never holds more than one utterance of the        *)
(* component, playing or queued: a speakResponse call cancels the          *)
(* utterance before it.                                                    *)
(***************************************************************************)
C13_OneUtterance == synth <= 1

(***************************************************************************)
(* C14.  While the session is stopped (after a stop, until the next start) *)
(* no step starts a recognition session or an utterance, or sets           *)
(* isListening, isSpeaking or isProcessing to true.                        *)
(***************************************************************************)
RunningRecs == {r \in AllRecs : r.st = "running"}

C14_IdleAfterStop ==
  [][(nStops > 0 /\ ~isActive /\ ~isActive') =>
       /\ isListening' => isListening
       /\ isSpeaking' => isSpeaking
       /\ isProcessing' => isProcessing
       /\ synth' <= synth
       /\ RunningRecs' \subseteq RunningRecs]_vars

(***************************************************************************)
(* C15.  A TaskContext whose status is completed or failed is never        *)
(* written again with other field values: as long as currentTask is that   *)
(* task, it stays as it is.                                                *)
(***************************************************************************)
C15_TerminalImmutable ==
  [][(currentTask.status \in {"completed", "failed"}
        /\ currentTask'.id = currentTask.id) =>
       currentTask' = currentTask]_vars

(***************************************************************************)
(* C16.  Every TaskContext creation is mirrored: once no turn is in flight *)
(* any more, exactly one tasks.create call has been issued for every       *)
(* TaskContext that was created.                                           *)
(***************************************************************************)
C16_CreationMirrored ==
  turns = {} => \A i \in DOMAIN createCalls : createCalls[i] = 1

(***************************************************************************)
(* C17.  No step of a session starts a recognition object while            *)
(* isSpeaking is true.                                                     *)
(***************************************************************************)
C17_NoStartWhileSpeaking ==
  [][~(RunningRecs' \subseteq RunningRecs) => ~isSpeaking]_vars

C19_SpeakingEnds == [](isSpeaking => <>~isSpeaking)

\* without speechSynthesis, after the response of a turn: nothing of it is
\* pending any more and isSpeaking is false
C19_Witness ==
  /\ ~webSpeech /\ lastSpoken.what = "response" /\ ~isSpeaking
  /\ turns = {} /\ speechCalls = 0 /\ playCalls = 0 /\ audio = 0

(***************************************************************************)
(* C20.  determineTaskType returns onboarding exactly when the lower-cased *)
(* text contains an onboarding trigger, followup exactly when it contains  *)
(* no onboarding trigger but a followup trigger, logging exactly when it   *)
(* contains neither but a logging trigger, and null exactly when it        *)
(* contains no trigger.                                                    *)
(***************************************************************************)
\* word occurs in text at some position
Occurs(word, text) ==
  \E i \in 0..(Len(text) - Len(word)) :
     \A k \in 1..Len(word) : text[i + k] = word[k]

Triggered(ty) ==
  \E word \in Lexicon[ty] : Occurs(word, toLowerCase(Flatten(heard)))

C20_FirstMatchWins ==
  /\ classified \in TaskTypes \cup {"null"}
  /\ classified = "onboarding" <=> Triggered("onboarding")
  /\ classified = "followup" <=>
       ~Triggered("onboarding") /\ Triggered("followup")
  /\ classified = "logging" <=>
       /\ ~Triggered("onboarding") /\ ~Triggered("followup")
       /\ Triggered("logging")
  /\ classified = "null" <=> \A ty \in TaskTypes : ~Triggered(ty)

\* a text with capital letters that has triggers of all three lexicons, the
\* onboarding one last
C20_Witness ==
  /\ classified = "onboarding"
  /\ \A ty \in TaskTypes : Triggered(ty)
  /\ \E word \in Lexicon.followup : Occurs(word, toLowerCase(Head(heard)))
  /\ Flatten(heard) # toLowerCase(Flatten(heard))

(***************************************************************************)
(* C21.  The conversation log is append-only and ordered: every step       *)
(* leaves the log as it is or appends one turn at its end, the entries it  *)
(* had stay where and what they were, and an agent turn stands behind the  *)
(* user turn of its exchange.                                              *)
(***************************************************************************)
C21_AppendOnlyOrdered ==
  [][/\ Len(conversation') \in {Len(conversation), Len(conversation) + 1}
     /\ SubSeq(conversation', 1, Len(conversation)) = conversation
     /\ \A j \in DOMAIN conversation' :
          conversation'[j].type = "agent" =>
            \E i \in 1..(j - 1) :
              /\ conversation'[i].type = "user"
              /\ conversation'[i].turn = conversation'[j].turn]_vars

\* two exchanges whose turns interleave: both user turns, then the
\* response to the second, then the response to the first
C21_Witness ==
  /\ Len(conversation) = 4
  /\ conversation[1].type = "user" /\ conversation[2].type = "user"
  /\ conversation[3].type = "agent" /\ conversation[3].turn = 2
  /\ conversation[4].type = "agent" /\ conversation[4].turn = 1

(***************************************************************************)
(* C22.  No two turns of the conversation log share an id, whatever the    *)
(* time that passes between the steps that create them.                    *)
(***************************************************************************)
C22_UniqueTurnIds ==
  \A i, j \in DOMAIN conversation :
    i # j => conversation[i].id # conversation[j].id

(***************************************************************************)
(* C23.  A stop of an active session leaves the transcript empty.          *)
(***************************************************************************)
C23_StopClearsTranscript ==
  [][isActive /\ ~isActive' => transcript' = ""]_vars

(***************************************************************************)
(* C29.  isSpeaking is true whenever an utterance of speakResponse plays   *)
(* or waits in the synthesizer, in a session that is never stopped.        *)
(***************************************************************************)
C29_SpeakingWhilePending == synth > 0 => isSpeaking

(***************************************************************************)
(* C25.  processCommand with a non-blank command issues tasks.create,      *)
(* ai.generateText, tasks.update and onTaskCreated in that order, the      *)
(* record being created as 'processing' and updated to 'completed'; a call *)
(* whose remote operations all succeeded has invoked onTaskCreated once,   *)
(* a call one of whose operations failed never has; a blank command issues *)
(* no operation at all.                                                    *)
(***************************************************************************)
ListedOrder == <<"tasks.create", "ai.generateText", "tasks.update", "onTaskCreated">>

IsListed(op) == \E i \in DOMAIN ListedOrder : ListedOrder[i] = op

IsPrefix(a, b) == Len(a) <= Len(b) /\ a = SubSeq(b, 1, Len(a))

\* the text has nothing but spaces
Blank(text) == \A i \in DOMAIN text : text[i] = " "

C25_OrderedOperations ==
  \A cid \in DOMAIN viCommands :
    LET listed == SelectSeq(viOps[cid], IsListed)
    IN /\ IsPrefix(listed, ListedOrder)
       /\ Blank(viCommands[cid]) =>
            viOps[cid] = <<>> /\ viOutcome[cid] = "returned"
       /\ ~Blank(viCommands[cid]) => viOps[cid] # <<>>
       /\ viOutcome[cid] = "done" =>
            listed = ListedOrder /\ viStatus[cid] = "completed"
       /\ viOutcome[cid] \notin {"pending", "done"} =>
            /\ Len(listed) < Len(ListedOrder)
            /\ viStatus[cid] # "completed"
       /\ (Len(listed) >= 2 /\ viOutcome[cid] # "done") =>
            viStatus[cid] = "processing"

\* a call that went through, a call whose generateText failed and a call
\* with a command of one space
C25_Witness ==
  \E a, b, c \in DOMAIN viCommands :
    /\ viOutcome[a] = "done"
    /\ viOutcome[b] = "ai.generateText"
    /\ viCommands[c] = <<" ">> /\ viOutcome[c] = "returned"

(***************************************************************************)
(* C26, as stated.  A call whose generateText or tasks.update failed       *)
(* leaves its record 'processing' and has issued no tasks.update.          *)
(***************************************************************************)
IsUpdate(op) == op = "tasks.update"

Updates(cid) == Len(SelectSeq(viOps[cid], IsUpdate))

C26_NoUpdateIssued ==
  \A cid \in DOMAIN viOutcome :
    viOutcome[cid] \in {"ai.generateText", "tasks.update"} =>
      viStatus[cid] = "processing" /\ Updates(cid) = 0

(***************************************************************************)
(* C26, amended.  When generateText or tasks.update of a call fails, the   *)
(* record stays 'processing', onTaskCreated is not invoked, the response   *)
(* becomes the error message and, where speechSynthesis exists, the timer  *)
(* that speaks it is armed; the call has issued no tasks.update when       *)
(* generateText failed and one, the rejected update to 'completed', when   *)
(* tasks.update failed.  A call that has ended issues nothing more and     *)
(* its record does not change.                                             *)
(***************************************************************************)
C26_FailureLeavesProcessing ==
  [][\A cid \in DOMAIN viOutcome :
       /\ (viOutcome[cid] = "pending"
            /\ viOutcome'[cid] \in {"ai.generateText", "tasks.update"}) =>
               /\ viStatus'[cid] = "processing"
               /\ viOps'[cid] = viOps[cid]
               /\ ~IsPrefix(ListedOrder, SelectSeq(viOps[cid], IsListed))
               /\ Updates(cid) =
                    (IF viOutcome'[cid] = "tasks.update" THEN 1 ELSE 0)
               /\ viResponse' = "error"
               /\ viSpeakTimers' =
                    (IF webSpeech THEN viSpeakTimers + 1 ELSE viSpeakTimers)
       /\ viOutcome[cid] # "pending" =>
               /\ viOutcome'[cid] = viOutcome[cid]
               /\ viOps'[cid] = viOps[cid]
               /\ viStatus'[cid] = viStatus[cid]]_vars

\* one call ended by a rejected generateText, another by a rejected update
C26_Witness ==
  \E a, b \in DOMAIN viOutcome :
    /\ viOutcome[a] = "ai.generateText" /\ viStatus[a] = "processing"
    /\ viOutcome[b] = "tasks.update" /\ viStatus[b] = "processing"
    /\ viCalls = {}

(***************************************************************************)
(* C27.  In VoiceInterface isProcessing is true whenever a processCommand  *)
(* or transcribeAudio call is in flight.                                   *)
(***************************************************************************)
C27_ProcessingWhileInFlight ==
  (viCalls # {} \/ viAudio # {}) => viIsProcessing

(***************************************************************************)
(* C30.  In AgentCards, whenever a run of executeAgent is in flight it is  *)
(* the only one and activeAgent is its agentId.                            *)
(***************************************************************************)
C30_ActiveAgentIsTheRun ==
  runs # {} =>
    Cardinality(runs) = 1 /\ \A r \in runs : activeAgent = r.agentId

(***************************************************************************)
(* C24.  Of the transcripts queued less than 500 ms apart, the last one is *)
(* passed to processVoiceInput exactly once, when its timer fires, and     *)
(* none of the others is.                                                  *)
(***************************************************************************)
C24_LastOfBurstOnce ==
  burst # <<>> =>
    IF processingTimeout.st = "armed"
    THEN burstPassed = <<>>
    ELSE burstPassed = <<burst[Len(burst)]>>

(***************************************************************************)
(* C28.  After a click that stops listening, and until the next click      *)
(* that starts it, no processVoiceInput call is made and no                *)
(* ai.generateObject call is issued.                                       *)
(***************************************************************************)
C28_NoDispatchAfterStop ==
  [][cviStopped =>
       /\ Len(burstPassed') <= Len(burstPassed)
       /\ cviCalls' <= cviCalls]_vars

====
